---- MODULE Spec2Model ----
(***************************************************************************)
(* Multi-agent orchestration engine of fibanez6/ai_samples:                *)
(* MultiAgentOrchestrator (langgraph_orchestrator.py) with its Research,   *)
(* Analysis and Action agents.  One execute() call is one execution; its   *)
(* OrchestratorState is state[e]; pc[e] is the graph node that runs next.  *)
(* A node handler, together with the agent process() it awaits and the     *)
(* conditional edge evaluated after it, is one action.                     *)
(*                                                                         *)
(*   Spec       one execute() call at a time, full inputs and collaborators *)
(*   ConcSpec   interleaved execute() calls and health_check() calls        *)
(*   AgentSpec  the agents' process() and helpers called on their own       *)
(*   GraphSpec  the workflow graph run to its end, for every retry budget   *)
(*   HistorySpec  invoke_llm calls interleaving on one agent's history      *)
(***************************************************************************)
EXTENDS Integers, Sequences, FiniteSets, TLC

\* ---------------------------------------------------------------- bounds
NumExecs == 2        \* execute() calls made on the one orchestrator
MaxUrls == 1         \* longest user_input["urls"] list
MaxLLMFail == 2      \* the LLM may raise on call 1..MaxLLMFail of a process()
MaxPlan == 1         \* most actions the LLM puts in an action plan

\* ------------------------------------------------------ program constants
DefaultMaxRetries == 2
DefaultMaxSources == 5

Execs == 1..NumExecs
AgentNames == {"research", "analysis", "action"}

\* ------------------------------------------------------- python helpers
\* None is a value of its own; a mapping is a record.  execute() creates the
\* three result slots, final_output and execution_summary as keys holding
\* None, so state.get(key, {}) on an unwritten slot yields None, not {}.
None == [isNone |-> TRUE]
IsNone(d) == "isNone" \in DOMAIN d

\* d.get(k, default) on a mapping d
GetOr(d, k, default) == IF k \in DOMAIN d THEN d[k] ELSE default

\* d.get("status"): the string "None" stands for a missing key
Status(d) == GetOr(d, "status", "None")

Range(s) == {s[i] : i \in 1..Len(s)}
Min(a, b) == IF a < b THEN a ELSE b
Take(s, n) == SubSeq(s, 1, Min(n, Len(s)))

RECURSIVE SeqsUpTo(_, _)
SeqsUpTo(S, n) ==
    IF n = 0 THEN {<<>>}
    ELSE LET shorter == SeqsUpTo(S, n - 1)
         IN  shorter \cup {Append(q, x) : q \in shorter, x \in S}

\* ------------------------------------------------------------------ URLs
\* A URL as urlparse() splits it: scheme, netloc as its dot-separated
\* labels, path as its "/"-separated segments, each segment as its
\* dot-separated parts ("data.json" is <<"data", "json">>).
UrlBlog == [scheme |-> "https", netloc |-> <<"blog", "example", "com">>,
            path |-> << <<"">>, <<"post">> >>]
UrlCdn  == [scheme |-> "https", netloc |-> <<"cdn", "example", "com">>,
            path |-> << <<"">>, <<"data", "json">> >>]
UrlBad  == [scheme |-> "http", netloc |-> <<"bad", "example">>,
            path |-> << <<"">> >>]
URLS == {UrlBlog, UrlCdn, UrlBad}

web_domains == {"www", "blog", "news", "article"}
web_extensions == {"html", "htm", "php", "asp", "aspx"}

LastSegment(url) == url.path[Len(url.path)]

\* A classifier whose default rule forgets the file-extension test
_should_scrape_url_any_http(url) ==
    IF Len(url.netloc) >= 2 /\ url.netloc[1] \in web_domains THEN TRUE
    ELSE IF /\ Len(url.path) >= 1
            /\ Len(LastSegment(url)) >= 2
            /\ LastSegment(url)[Len(LastSegment(url))] \in web_extensions THEN TRUE
    ELSE IF url.scheme \in {"http", "https"} THEN TRUE
    ELSE FALSE

_should_scrape_url(url) ==
    IF Len(url.netloc) >= 2 /\ url.netloc[1] \in web_domains THEN TRUE
    ELSE IF /\ Len(url.path) >= 1
            /\ Len(LastSegment(url)) >= 2
            /\ LastSegment(url)[Len(LastSegment(url))] \in web_extensions THEN TRUE
    ELSE IF /\ url.scheme \in {"http", "https"}
            /\ (Len(url.path) = 0 \/ Len(LastSegment(url)) <= 1) THEN TRUE
    ELSE FALSE

\* ------------------------------------------------------- collaborators
\* What the collaborators do during one process() call:
\*   raises      process() or the input preparation raises
\*   health_ok   MCP health_check() answers
\*   search_ok   MCP search_data() answers
\*   url_out     per URL: content returned, empty content, or the call raises
\*   llm_fail_at 0: the LLM never raises; k: its k-th call in this process() raises
\*   n_actions   how many actions the LLM puts in the action plan
UrlOutcomes == {"content", "empty", "error"}
Envs == [raises : BOOLEAN, health_ok : BOOLEAN, search_ok : BOOLEAN,
         url_out : [URLS -> UrlOutcomes], llm_fail_at : 0..MaxLLMFail,
         n_actions : 0..MaxPlan]

\* An LLM whose errors are swallowed
LLMOk_never_raises(env, k) == TRUE

\* The k-th LLM call of a process() returns (TRUE) or raises (FALSE)
LLMOk(env, k) == env.llm_fail_at = 0 \/ k < env.llm_fail_at

\* Number of invoke_llm calls that returned when `wanted` calls are attempted
\* in order and the first raising one aborts the rest.
LLMReturned(env, wanted) ==
    IF env.llm_fail_at = 0 \/ env.llm_fail_at > wanted THEN wanted
    ELSE env.llm_fail_at - 1

\* ------------------------------------------------------- Research Agent
ResearchValidationError ==
    [error |-> "No research query, URLs, or search terms provided", status |-> "failed"]

\* The entry appended to content_gathered for one URL of the batch
ContentEntry(url, env) ==
    IF env.url_out[url] = "error"
    THEN [url |-> url, type |-> "error", error |-> "exception"]
    ELSE LET content == IF env.url_out[url] = "content" THEN "text" ELSE ""
         IN  IF _should_scrape_url(url)
             THEN [url |-> url, type |-> "scraped", title |-> "title", content |-> content]
             ELSE [url |-> url, type |-> "fetched", content |-> content]

\* A batch that stops recording sources at the first failing URL
RECURSIVE SelectOk_until_error(_, _)
SelectOk_until_error(urls, env) ==
    IF urls = <<>> THEN <<>>
    ELSE IF env.url_out[Head(urls)] = "error" THEN <<>>
    ELSE <<Head(urls)>> \o SelectOk_until_error(Tail(urls), env)

RECURSIVE SelectOk(_, _)
SelectOk(urls, env) ==
    IF urls = <<>> THEN <<>>
    ELSE IF env.url_out[Head(urls)] = "error" THEN SelectOk(Tail(urls), env)
    ELSE <<Head(urls)>> \o SelectOk(Tail(urls), env)

\* ResearchAgent.process: result is the returned mapping, llm_returned the
\* number of LLM exchanges logged, mcp_calls the MCP requests sent, cached
\* whether research_cache got an entry.
ResearchProcess(input, env) ==
    LET query == input.query
        urls == input.urls
        search_terms == input.search_terms
        visited == Take(urls, input.max_sources)
        base == [query |-> query, sources_researched |-> <<>>, content_gathered |-> <<>>,
                 search_results |-> <<>>, summary |-> "", recommendations |-> <<>>,
                 status |-> "completed"]
        Failed(r) == [f \in DOMAIN r \cup {"error"} |->
                        IF f = "status" THEN "failed"
                        ELSE IF f = "error" THEN "exception" ELSE r[f]]
        searched == [base EXCEPT !.search_results =
                        [i \in 1..Len(search_terms) |->
                            [term |-> search_terms[i], results |-> "results"]]]
        gathered == [searched EXCEPT
                        !.content_gathered = [i \in 1..Len(visited) |-> ContentEntry(visited[i], env)],
                        !.sources_researched = SelectOk(visited, env)]
        wants_suggestions == query # "" /\ urls = <<>>
        suggested == IF wants_suggestions
                     THEN [gathered EXCEPT !.recommendations = <<"suggestion">>]
                     ELSE gathered
        summary_call == IF wants_suggestions THEN 2 ELSE 1
        mcp_search == 2 * Len(search_terms)
    IN  IF query = "" /\ urls = <<>> /\ search_terms = <<>>
        THEN [result |-> ResearchValidationError, llm_returned |-> 0, mcp_calls |-> 0,
              cached |-> FALSE]
        ELSE IF ~env.health_ok
        THEN [result |-> Failed(base), llm_returned |-> 0, mcp_calls |-> 1, cached |-> FALSE]
        ELSE IF search_terms # <<>> /\ ~env.search_ok
        THEN [result |-> Failed(base), llm_returned |-> 0, mcp_calls |-> 2, cached |-> FALSE]
        ELSE IF wants_suggestions /\ ~LLMOk(env, 1)
        THEN [result |-> Failed(gathered), llm_returned |-> 0,
              mcp_calls |-> 1 + mcp_search + Len(visited), cached |-> FALSE]
        ELSE IF ~LLMOk(env, summary_call)
        THEN [result |-> Failed(suggested), llm_returned |-> summary_call - 1,
              mcp_calls |-> 1 + mcp_search + Len(visited), cached |-> FALSE]
        ELSE [result |-> [suggested EXCEPT !.summary = "summary"],
              llm_returned |-> summary_call,
              mcp_calls |-> 1 + mcp_search + Len(visited), cached |-> TRUE]

\* ------------------------------------------------------- Analysis Agent
AnalysisNoDataError ==
    [error |-> "No research data provided for analysis", status |-> "failed"]

\* any(item.get('content') and len(item.get('content', '').strip()) > 0 ...)
HasContent(research_data) ==
    LET items == GetOr(research_data, "content_gathered", <<>>)
    IN  \E i \in 1..Len(items) : GetOr(items[i], "content", "") # ""

\* bool(research_data): None and the empty mapping are falsy
Truthy(d) == ~IsNone(d) /\ DOMAIN d # {}

\* AnalysisAgent.process
AnalysisProcess(input, env) ==
    LET research_data == input.research_data
        query == GetOr(research_data, "query", "")
        sources == GetOr(research_data, "sources_researched", <<>>)
        content_gathered == GetOr(research_data, "content_gathered", <<>>)
        \* _evaluate_sources asks the LLM only when there is something to evaluate
        evaluates == IF sources = <<>> /\ content_gathered = <<>> THEN 0 ELSE 1
        \* insights, patterns, synthesis, recommendations, limitations
        wanted == evaluates + 5
        returned == LLMReturned(env, wanted)
        full == [analysis_type |-> input.analysis_type,
                 key_insights |-> IF returned >= evaluates + 1 THEN <<"insight">> ELSE <<>>,
                 recommendations |-> IF returned >= evaluates + 4 THEN <<"recommendation">> ELSE <<>>,
                 confidence_scores |-> IF returned >= evaluates + 4
                                       THEN [analysis_depth |-> "medium"]
                                       ELSE [x \in {} |-> ""],
                 status |-> "completed"]
    IN  IF ~Truthy(research_data)
        THEN [result |-> AnalysisNoDataError, llm_returned |-> 0, cached |-> FALSE]
        ELSE IF ~HasContent(research_data) /\ query # ""
        THEN \* _analyze_from_query: one LLM call, caught locally
             IF LLMOk(env, 1)
             THEN [result |-> [analysis_type |-> input.analysis_type,
                               key_insights |-> <<"insight">>,
                               recommendations |-> <<"recommendation">>,
                               confidence_scores |->
                                   [overall |-> "medium",
                                    note |-> "Based on training data knowledge"],
                               status |-> "completed"],
                   llm_returned |-> 1, cached |-> FALSE]
             ELSE [result |-> [error |-> "Failed to analyze query", status |-> "failed",
                               query |-> query],
                   llm_returned |-> 0, cached |-> FALSE]
        ELSE IF returned < wanted
        THEN [result |-> [f \in DOMAIN full \cup {"error"} |->
                            IF f = "status" THEN "failed"
                            ELSE IF f = "error" THEN "exception" ELSE full[f]],
              llm_returned |-> returned, cached |-> FALSE]
        ELSE [result |-> full, llm_returned |-> returned, cached |-> TRUE]

\* --------------------------------------------------------- Action Agent
ActionNoDataError ==
    [error |-> "No analysis or research data provided", status |-> "failed"]

EmptyMapping == [x \in {} |-> ""]

\* A score whose action-plan share is not capped at 30
_calculate_execution_score_uncapped(action_results) ==
    LET action_count == Len(GetOr(action_results, "action_plan", <<>>))
        metrics_count == Len(GetOr(action_results, "success_metrics", <<>>))
        score == action_count * 5
                 + (IF GetOr(action_results, "strategic_assessment", EmptyMapping) # EmptyMapping
                    THEN 20 ELSE 0)
                 + (IF GetOr(action_results, "risk_assessment", EmptyMapping) # EmptyMapping
                    THEN 20 ELSE 0)
                 + Min(15, metrics_count * 3)
                 + (IF GetOr(action_results, "resource_requirements", EmptyMapping) # EmptyMapping
                    THEN 15 ELSE 0)
    IN  Min(100, score)

_calculate_execution_score(action_results) ==
    LET action_count == Len(GetOr(action_results, "action_plan", <<>>))
        metrics_count == Len(GetOr(action_results, "success_metrics", <<>>))
        score == Min(30, action_count * 5)
                 + (IF GetOr(action_results, "strategic_assessment", EmptyMapping) # EmptyMapping
                    THEN 20 ELSE 0)
                 + (IF GetOr(action_results, "risk_assessment", EmptyMapping) # EmptyMapping
                    THEN 20 ELSE 0)
                 + Min(15, metrics_count * 3)
                 + (IF GetOr(action_results, "resource_requirements", EmptyMapping) # EmptyMapping
                    THEN 15 ELSE 0)
    IN  Min(100, score)

\* ActionAgent.process.  LLM calls in order: strategic assessment, action
\* plan, one urgency assessment per action, roadmap (only for a non-empty
\* priority list), success metrics, risks, resources, final recommendations.
ActionProcess(input, env) ==
    LET n == env.n_actions
        roadmap == IF n > 0 THEN 1 ELSE 0
        wanted == 6 + n + roadmap
        returned == LLMReturned(env, wanted)
        plan == [i \in 1..n |-> "action"]
        partial ==
            [original_query |-> input.original_query,
             strategic_assessment |-> IF returned >= 1 THEN [assessment |-> "text"]
                                      ELSE EmptyMapping,
             action_plan |-> IF returned >= 2 THEN plan ELSE <<>>,
             priority_actions |-> IF returned >= 2 + n THEN Take(plan, 5) ELSE <<>>,
             success_metrics |-> IF returned >= 3 + n + roadmap THEN <<"metric">> ELSE <<>>,
             risk_assessment |-> IF returned >= 4 + n + roadmap
                                 THEN [risk_assessment |-> "text"] ELSE EmptyMapping,
             resource_requirements |-> IF returned >= 5 + n + roadmap
                                       THEN [resources |-> "text"] ELSE EmptyMapping,
             final_recommendations |-> IF returned >= wanted THEN <<"recommendation">> ELSE <<>>,
             next_steps |-> <<>>,
             status |-> "completed",
             execution_score |-> 0]
    IN  IF ~Truthy(input.analysis_data) /\ ~Truthy(input.research_data)
        THEN [result |-> ActionNoDataError, llm_returned |-> 0, stored |-> FALSE]
        ELSE IF returned < wanted
        THEN [result |-> [f \in DOMAIN partial \cup {"error"} |->
                            IF f = "status" THEN "failed"
                            ELSE IF f = "error" THEN "exception" ELSE partial[f]],
              llm_returned |-> returned, stored |-> FALSE]
        ELSE [result |-> [partial EXCEPT
                            !.next_steps = Take(partial.priority_actions, 3),
                            !.execution_score = _calculate_execution_score(partial)],
              llm_returned |-> returned, stored |-> TRUE]

\* ---------------------------------------------------- OrchestratorState
QuerySet == {"", "q"}
UrlLists == SeqsUpTo(URLS, MaxUrls)
SearchTermLists == {<<>>, <<"term">>}
MaxSourcesSet == {1, DefaultMaxSources}
UserInputs == [urls : UrlLists, search_terms : SearchTermLists, max_sources : MaxSourcesSet]

\* The record execute() builds
initial_state(query, user_input) ==
    [original_query |-> query,
     user_input |-> user_input,
     current_step |-> "start",
     step_history |-> <<>>,
     research_results |-> None,
     analysis_results |-> None,
     action_results |-> None,
     next_agent |-> "None",
     retry_count |-> 0,
     max_retries |-> DefaultMaxRetries,
     final_output |-> None,
     execution_summary |-> None]

\* The record the node writes in its except branch
NodeFailure == [error |-> "exception", status |-> "failed"]

_prepare_research_input(s) ==
    [query |-> s.original_query,
     urls |-> s.user_input.urls,
     search_terms |-> s.user_input.search_terms,
     max_sources |-> s.user_input.max_sources]

_prepare_analysis_input(s) ==
    [research_data |-> s.research_results,
     analysis_type |-> "comprehensive"]

_prepare_action_input(s) ==
    [analysis_data |-> s.analysis_results,
     research_data |-> s.research_results,
     original_query |-> s.original_query]

\* The three agent nodes: the state each returns
\* A research step that forgets to record itself in step_history
_research_node_unrecorded(s, env) ==
    IF env.raises
    THEN [s EXCEPT !.research_results = NodeFailure,
                   !.current_step = "research_failed"]
    ELSE [s EXCEPT !.research_results = ResearchProcess(_prepare_research_input(s), env).result,
                   !.current_step = "research_completed"]

\* An except branch that also records the research step
_research_node_recording(s, env) ==
    IF env.raises
    THEN [s EXCEPT !.research_results = NodeFailure,
                   !.current_step = "research_failed",
                   !.step_history = Append(@, "research")]
    ELSE [s EXCEPT !.research_results = ResearchProcess(_prepare_research_input(s), env).result,
                   !.current_step = "research_completed",
                   !.step_history = Append(@, "research")]

_research_node(s, env) ==
    IF env.raises
    THEN [s EXCEPT !.research_results = NodeFailure,
                   !.current_step = "research_failed"]
    ELSE [s EXCEPT !.research_results = ResearchProcess(_prepare_research_input(s), env).result,
                   !.current_step = "research_completed",
                   !.step_history = Append(@, "research")]

\* An except branch that also records the step
_analysis_node_recording(s, env) ==
    IF env.raises
    THEN [s EXCEPT !.analysis_results = NodeFailure,
                   !.current_step = "analysis_failed",
                   !.step_history = Append(@, "analysis")]
    ELSE [s EXCEPT !.analysis_results = AnalysisProcess(_prepare_analysis_input(s), env).result,
                   !.current_step = "analysis_completed",
                   !.step_history = Append(@, "analysis")]

_analysis_node(s, env) ==
    IF env.raises
    THEN [s EXCEPT !.analysis_results = NodeFailure,
                   !.current_step = "analysis_failed"]
    ELSE [s EXCEPT !.analysis_results = AnalysisProcess(_prepare_analysis_input(s), env).result,
                   !.current_step = "analysis_completed",
                   !.step_history = Append(@, "analysis")]

_action_node(s, env) ==
    IF env.raises
    THEN [s EXCEPT !.action_results = NodeFailure,
                   !.current_step = "action_failed"]
    ELSE [s EXCEPT !.action_results = ActionProcess(_prepare_action_input(s), env).result,
                   !.current_step = "action_completed",
                   !.step_history = Append(@, "action")]

\* Copy-paste slips in the retry branch
FailedAgent_research_to_analysis(current_step) ==
    IF current_step = "research_failed" THEN "analysis"
    ELSE IF current_step = "analysis_failed" THEN "analysis"
    ELSE "action"

FailedAgent_analysis_to_research(current_step) ==
    IF current_step = "research_failed" THEN "research"
    ELSE IF current_step = "analysis_failed" THEN "research"
    ELSE "action"

FailedAgent(current_step) ==
    IF current_step = "research_failed" THEN "research"
    ELSE IF current_step = "analysis_failed" THEN "analysis"
    ELSE "action"

\* Off by one in the budget test
CanRetry_inclusive(s) == s.retry_count <= s.max_retries

\* A budget test that always grants another attempt
CanRetry_always(s) == TRUE

\* if retry_count < max_retries
CanRetry(s) == s.retry_count < s.max_retries

\* The routing decision of the coordinator (the value it stores in next_agent)
CoordinatorDecision(s) ==
    IF s.current_step = "start" THEN "research"
    ELSE IF s.current_step = "research_completed" /\ "analysis" \notin Range(s.step_history)
    THEN "analysis"
    ELSE IF s.current_step = "analysis_completed" /\ "action" \notin Range(s.step_history)
    THEN "action"
    ELSE IF s.current_step \in {"research_failed", "analysis_failed", "action_failed"}
    THEN IF CanRetry(s) THEN FailedAgent(s.current_step) ELSE "end"
    ELSE "end"

\* A retry that is never counted
CoordinatorRetryCount_uncounted(s) == s.retry_count

CoordinatorRetryCount(s) ==
    IF /\ s.current_step \in {"research_failed", "analysis_failed", "action_failed"}
       /\ CanRetry(s)
    THEN s.retry_count + 1
    ELSE s.retry_count

\* A coordinator that leaves current_step as it found it
CoordinatorStep_kept(s) == s.current_step

CoordinatorStep(s) == "coordinated"

\* A coordinator that prepares the output itself when it routes to end
_coordinator_node_finalizing(s) ==
    [s EXCEPT !.next_agent = CoordinatorDecision(s),
              !.retry_count = CoordinatorRetryCount(s),
              !.current_step = CoordinatorStep(s),
              !.final_output = IF CoordinatorDecision(s) = "end"
                               THEN [query |-> s.original_query]
                               ELSE s.final_output]

_coordinator_node(s) ==
    [s EXCEPT !.next_agent = CoordinatorDecision(s),
              !.retry_count = CoordinatorRetryCount(s),
              !.current_step = CoordinatorStep(s)]

\* Conditional edges: the name each router returns
_route_from_coordinator(s) == IF s.next_agent = "None" THEN "end" ELSE s.next_agent

\* Routers that never look at the result
_route_from_research_always_analysis(s) == "analysis"

_route_from_analysis_always_action(s) == "action"

\* An action router that hands a failed result to the coordinator
_route_from_action_retrying(s) ==
    IF Status(s.action_results) = "failed" THEN "coordinator" ELSE "end"

_route_from_research(s) ==
    IF Status(s.research_results) = "failed" THEN "coordinator" ELSE "analysis"

_route_from_analysis(s) ==
    IF Status(s.analysis_results) = "failed" THEN "coordinator" ELSE "action"

_route_from_action(s) == "end"

\* The node an edge name leads to
NodeOf(name) == IF name = "end" THEN "finalizer" ELSE name

\* A success test that forgets the action result
_determine_success_no_action(s) ==
    LET steps_completed == \A step \in {"research", "analysis", "action"} :
                               step \in Range(s.step_history)
        no_final_failures == /\ Status(s.research_results) # "failed"
                             /\ Status(s.analysis_results) # "failed"
    IN  steps_completed /\ no_final_failures

_determine_success(s) ==
    LET steps_completed == \A step \in {"research", "analysis", "action"} :
                               step \in Range(s.step_history)
        no_final_failures == /\ Status(s.research_results) # "failed"
                             /\ Status(s.analysis_results) # "failed"
                             /\ Status(s.action_results) # "failed"
    IN  steps_completed /\ no_final_failures

\* A final output that reports the steps up to, not including, the last one
_prepare_final_output_truncated(s) ==
    [query |-> s.original_query,
     research_summary |-> GetOr(s.research_results, "summary", "No research summary available"),
     key_insights |-> GetOr(s.analysis_results, "key_insights", <<>>),
     strategic_recommendations |-> GetOr(s.action_results, "final_recommendations", <<>>),
     action_plan |-> GetOr(s.action_results, "priority_actions", <<>>),
     next_steps |-> GetOr(s.action_results, "next_steps", <<>>),
     confidence_assessment |-> GetOr(s.analysis_results, "confidence_scores", EmptyMapping),
     workflow_metadata |-> [steps_executed |-> Take(s.step_history, Len(s.step_history) - 1),
                            agents_used |-> Range(s.step_history),
                            retry_count |-> s.retry_count]]

_prepare_final_output(s) ==
    [query |-> s.original_query,
     research_summary |-> GetOr(s.research_results, "summary", "No research summary available"),
     key_insights |-> GetOr(s.analysis_results, "key_insights", <<>>),
     strategic_recommendations |-> GetOr(s.action_results, "final_recommendations", <<>>),
     action_plan |-> GetOr(s.action_results, "priority_actions", <<>>),
     next_steps |-> GetOr(s.action_results, "next_steps", <<>>),
     confidence_assessment |-> GetOr(s.analysis_results, "confidence_scores", EmptyMapping),
     workflow_metadata |-> [steps_executed |-> s.step_history,
                            agents_used |-> Range(s.step_history),
                            retry_count |-> s.retry_count]]

_create_execution_summary(s) ==
    [total_steps |-> Len(s.step_history),
     successful_steps |-> Cardinality({i \in 1..Len(s.step_history) :
                                          s.step_history[i] \in AgentNames}),
     failed_steps |-> s.retry_count,
     execution_path |-> s.step_history,
     research_sources |-> Len(GetOr(s.research_results, "sources_researched", <<>>)),
     insights_generated |-> Len(GetOr(s.analysis_results, "key_insights", <<>>)),
     actions_planned |-> Len(GetOr(s.action_results, "action_plan", <<>>))]

\* x.get(...) on a slot that still holds None raises AttributeError
FinalizerRaises(s) ==
    IsNone(s.research_results) \/ IsNone(s.analysis_results) \/ IsNone(s.action_results)

HistoryEntry(s) ==
    [query |-> s.original_query,
     steps_executed |-> s.step_history,
     success |-> _determine_success(s)]

\* ------------------------------------------------------------ the system
VARIABLES
    pc,                    \* per execution: the node that runs next
    state,                 \* per execution: its OrchestratorState
    execution_history,     \* MultiAgentOrchestrator.execution_history
    conversation_history,  \* per agent: BaseAgent.conversation_history (roles)
    research_cache,        \* ResearchAgent.research_cache (its keys)
    analysis_cache,        \* AnalysisAgent.analysis_cache (its keys)
    action_history,        \* ActionAgent.action_history (its length)
    aux,                   \* per execution: observations of the run so far
    call                   \* the last call made on the orchestrator or on an
                           \* agent outside a workflow: its arguments and result

vars == <<pc, state, execution_history, conversation_history, research_cache,
          analysis_cache, action_history, aux, call>>

\* Observations kept per execution (not program state):
\*   trace        the nodes invoked so far, in order
\*   llm_calls    LLM exchanges logged on behalf of this execution
\*   mcp_calls    MCP requests sent on behalf of this execution
\*   raised       the last agent node invocation ended in its except branch
\*   url_failures_only  a Research attempt returned after every visited URL
\*                raised while health check, searches and LLM calls succeeded
\*   exhausted    the Coordinator routed to end because the retry budget was spent
\*   entry        index of the execution-history entry this execution appended
InitAux == [trace |-> <<>>, llm_calls |-> 0, mcp_calls |-> 0, raised |-> FALSE,
            url_failures_only |-> FALSE, exhausted |-> FALSE, entry |-> 0]

Finished(e) == pc[e] \in {"done", "raised"}

\* No call outside a workflow has been made
NoCall == [op |-> "none"]

Exchanges(n) == [i \in 1..(2 * n) |-> IF i % 2 = 1 THEN "user" ELSE "assistant"]

Init ==
    /\ pc = [e \in Execs |-> "idle"]
    /\ state = [e \in Execs |-> initial_state("", [urls |-> <<>>, search_terms |-> <<>>,
                                                    max_sources |-> DefaultMaxSources])]
    /\ execution_history = <<>>
    /\ conversation_history = [a \in AgentNames |-> <<>>]
    /\ research_cache = {}
    /\ analysis_cache = {}
    /\ action_history = 0
    /\ aux = [e \in Execs |-> InitAux]
    /\ call = NoCall

\* execute(query, user_input) up to the first node, for the callers' queries
\* and options given; executions are numbered in the order they are started
ExecuteFrom(e, Queries, Inputs) ==
    /\ pc[e] = "idle"
    /\ \A f \in Execs : f < e => pc[f] # "idle"
    /\ \E query \in Queries, user_input \in Inputs :
          state' = [state EXCEPT ![e] = initial_state(query, user_input)]
    /\ pc' = [pc EXCEPT ![e] = "coordinator"]
    /\ UNCHANGED <<execution_history, conversation_history, research_cache,
                   analysis_cache, action_history, aux>>

Execute(e) == ExecuteFrom(e, QuerySet, UserInputs)

\* An orchestrator that keeps the workflow state in one field of the instance:
\* the Coordinator works on the state of the call started last
Coordinator_shared_state(e) ==
    /\ pc[e] = "coordinator"
    /\ LET last == CHOOSE f \in Execs :
                       pc[f] # "idle" /\ \A g \in Execs : g > f => pc[g] = "idle"
           new == _coordinator_node(state[last])
       IN  /\ state' = [state EXCEPT ![e] = new]
           /\ pc' = [pc EXCEPT ![e] = NodeOf(_route_from_coordinator(new))]
           /\ aux' = [aux EXCEPT ![e].trace = Append(@, "coordinator")]
    /\ UNCHANGED <<execution_history, conversation_history, research_cache,
                   analysis_cache, action_history>>

Coordinator(e) ==
    /\ pc[e] = "coordinator"
    /\ LET s == state[e]
           new == _coordinator_node(s)
       IN  /\ state' = [state EXCEPT ![e] = new]
           /\ pc' = [pc EXCEPT ![e] = NodeOf(_route_from_coordinator(new))]
           /\ aux' = [aux EXCEPT ![e].trace = Append(@, "coordinator"),
                                 ![e].exhausted =
                                     \/ @
                                     \/ /\ s.current_step \in {"research_failed",
                                                               "analysis_failed",
                                                               "action_failed"}
                                        /\ new.next_agent = "end"]
    /\ UNCHANGED <<execution_history, conversation_history, research_cache,
                   analysis_cache, action_history>>

UrlFailuresOnly(input, env) ==
    /\ ~env.raises /\ env.health_ok /\ env.search_ok /\ env.llm_fail_at = 0
    /\ input.urls # <<>>
    /\ \A i \in 1..Len(input.urls) : env.url_out[input.urls[i]] = "error"

\* The Research node among collaborators behaving as one of EnvSet
ResearchIn(e, EnvSet) ==
    /\ pc[e] = "research"
    /\ \E env \in EnvSet :
          LET s == state[e]
              input == _prepare_research_input(s)
              out == ResearchProcess(input, env)
              new == _research_node(s, env)
              llm == IF env.raises THEN 0 ELSE out.llm_returned
              mcp == IF env.raises THEN 0 ELSE out.mcp_calls
          IN  /\ env.n_actions = 0
              /\ state' = [state EXCEPT ![e] = new]
              /\ pc' = [pc EXCEPT ![e] = NodeOf(_route_from_research(new))]
              /\ conversation_history' =
                     [conversation_history EXCEPT !["research"] = @ \o Exchanges(llm)]
              /\ research_cache' =
                     IF ~env.raises /\ out.cached
                     THEN research_cache \cup {[query |-> input.query, urls |-> input.urls]}
                     ELSE research_cache
              /\ aux' = [aux EXCEPT ![e].trace = Append(@, "research"),
                                    ![e].llm_calls = @ + llm,
                                    ![e].mcp_calls = @ + mcp,
                                    ![e].raised = env.raises,
                                    ![e].url_failures_only = @ \/ UrlFailuresOnly(input, env)]
    /\ UNCHANGED <<execution_history, analysis_cache, action_history>>

Research(e) == ResearchIn(e, Envs)

\* The collaborators an Analysis or Action call can meet: no MCP is involved
LLMEnvs == {env \in Envs : /\ env.health_ok /\ env.search_ok
                           /\ \A u \in URLS : env.url_out[u] = "content"}

AnalysisIn(e, EnvSet) ==
    /\ pc[e] = "analysis"
    /\ \E env \in EnvSet :
          LET s == state[e]
              input == _prepare_analysis_input(s)
              out == AnalysisProcess(input, env)
              new == _analysis_node(s, env)
              llm == IF env.raises THEN 0 ELSE out.llm_returned
          IN  /\ env.n_actions = 0
              /\ state' = [state EXCEPT ![e] = new]
              /\ pc' = [pc EXCEPT ![e] = NodeOf(_route_from_analysis(new))]
              /\ conversation_history' =
                     [conversation_history EXCEPT !["analysis"] = @ \o Exchanges(llm)]
              /\ analysis_cache' =
                     IF ~env.raises /\ out.cached
                     THEN analysis_cache \cup {[analysis_type |-> input.analysis_type,
                                                research_data |-> input.research_data]}
                     ELSE analysis_cache
              /\ aux' = [aux EXCEPT ![e].trace = Append(@, "analysis"),
                                    ![e].llm_calls = @ + llm,
                                    ![e].raised = env.raises]
    /\ UNCHANGED <<execution_history, research_cache, action_history>>

Analysis(e) == AnalysisIn(e, LLMEnvs)

ActionIn(e, EnvSet) ==
    /\ pc[e] = "action"
    /\ \E env \in EnvSet :
          LET s == state[e]
              input == _prepare_action_input(s)
              out == ActionProcess(input, env)
              new == _action_node(s, env)
              llm == IF env.raises THEN 0 ELSE out.llm_returned
          IN  /\ state' = [state EXCEPT ![e] = new]
              /\ pc' = [pc EXCEPT ![e] = NodeOf(_route_from_action(new))]
              /\ conversation_history' =
                     [conversation_history EXCEPT !["action"] = @ \o Exchanges(llm)]
              /\ action_history' =
                     IF ~env.raises /\ out.stored THEN action_history + 1 ELSE action_history
              /\ aux' = [aux EXCEPT ![e].trace = Append(@, "action"),
                                    ![e].llm_calls = @ + llm,
                                    ![e].raised = env.raises]
    /\ UNCHANGED <<execution_history, research_cache, analysis_cache>>

Action(e) == ActionIn(e, LLMEnvs)

\* _finalizer_node, then END: execute() returns final_output; when an
\* extraction helper raises, the exception leaves execute()
Finalizer(e) ==
    /\ pc[e] = "finalizer"
    /\ LET s == state[e]
       IN  IF FinalizerRaises(s)
           THEN /\ pc' = [pc EXCEPT ![e] = "raised"]
                /\ aux' = [aux EXCEPT ![e].trace = Append(@, "finalizer")]
                /\ UNCHANGED <<state, execution_history>>
           ELSE /\ state' = [state EXCEPT
                                ![e].final_output = _prepare_final_output(s),
                                ![e].execution_summary = _create_execution_summary(s)]
                /\ execution_history' = Append(execution_history, HistoryEntry(s))
                /\ pc' = [pc EXCEPT ![e] = "done"]
                /\ aux' = [aux EXCEPT ![e].trace = Append(@, "finalizer"),
                                      ![e].entry = Len(execution_history) + 1]
    /\ UNCHANGED <<conversation_history, research_cache, analysis_cache, action_history>>

\* The orchestrator serving one execute() call
Alone(e) == \A f \in Execs \ {e} : pc[f] = "idle"

Next ==
    \E e \in Execs :
        /\ Alone(e)
        /\ \/ Execute(e)
           \/ Coordinator(e)
           \/ Research(e)
           \/ Analysis(e)
           \/ Action(e)
           \/ Finalizer(e)
        /\ UNCHANGED call

Spec == Init /\ [][Next]_vars

\* ------------------------------------------------ concurrent executions
\* execute() is a coroutine: several calls on one orchestrator interleave at
\* their awaits.  Each call owns the state record it passes to the graph; the
\* orchestrator's execution_history and the agents' histories and caches are
\* shared.  A node's writes to its state record and the Finalizer's append
\* contain no await, so a node is one step of the interleaving.
ConcQueries == {"q", "r"}
ConcInputs == {[urls |-> <<>>, search_terms |-> <<>>, max_sources |-> DefaultMaxSources]}
ConcEnvs == {env \in LLMEnvs : env.llm_fail_at = 0 /\ env.n_actions = 0}

\* A Python str where a mapping may stand as well
Str(text) == [str |-> text]
IsStr(v) == "str" \in DOMAIN v

\* BaseAgent.get_status
get_status(agent) ==
    [name |-> agent, conversation_length |-> Len(conversation_history[agent])]

get_agent_status ==
    [research_agent |-> get_status("research"),
     analysis_agent |-> get_status("analysis"),
     action_agent |-> get_status("action")]

\* What the MCP server's /health request does
McpHealthOutcomes == {"healthy", "raises"}

\* A health check without its try/except: the MCP error leaves the call
health_check_unguarded(mcp_health) ==
    IF mcp_health = "raises"
    THEN [raised |-> TRUE]
    ELSE [orchestrator |-> "healthy",
          agents |-> get_agent_status,
          mcp_server |-> [status |-> "healthy"],
          execution_history_count |-> Len(execution_history),
          timestamp |-> "now"]

\* MultiAgentOrchestrator.health_check: the mapping it returns
health_check(mcp_health) ==
    [orchestrator |-> "healthy",
     agents |-> get_agent_status,
     mcp_server |-> IF mcp_health = "raises" THEN Str("error: exception")
                    ELSE [status |-> "healthy"],
     execution_history_count |-> Len(execution_history),
     timestamp |-> "now"]

HealthCheck ==
    /\ \E mcp_health \in McpHealthOutcomes :
          call' = [op |-> "health_check", mcp_health |-> mcp_health,
                   out |-> health_check(mcp_health)]
    /\ UNCHANGED <<pc, state, execution_history, conversation_history, research_cache,
                   analysis_cache, action_history, aux>>

ConcNext ==
    \/ \E e \in Execs :
          /\ \/ ExecuteFrom(e, ConcQueries, ConcInputs)
             \/ Coordinator(e)
             \/ ResearchIn(e, ConcEnvs)
             \/ AnalysisIn(e, ConcEnvs)
             \/ ActionIn(e, ConcEnvs)
             \/ Finalizer(e)
          /\ UNCHANGED call
    \/ HealthCheck

ConcSpec == Init /\ [][ConcNext]_vars

\* ------------------------------------------- the workflow graph on its own
\* The compiled graph (self.app) run on an initial state record.  execute()
\* always passes max_retries = 2; the record type leaves the budget open, and
\* the Coordinator reads it from the record, so the graph is run here for
\* every budget in RetryBudgets.  The graph runtime runs the node an edge
\* leads to, and every agent call returns or raises: a node that is due
\* eventually runs.
MaxBudget == 3       \* largest max_retries handed to the graph

RetryBudgets == 0..MaxBudget

\* The outcomes that decide the path through the graph: process() raises,
\* returns a failed result (health check or first LLM call raising) or
\* returns a completed one
GraphEnvs ==
    {[raises |-> raises, health_ok |-> health_ok, search_ok |-> TRUE,
      url_out |-> [u \in URLS |-> "content"], llm_fail_at |-> llm_fail_at,
      n_actions |-> 0] :
        raises \in BOOLEAN, health_ok \in BOOLEAN, llm_fail_at \in {0, 1}}

GraphInputs == {[urls |-> urls, search_terms |-> <<>>, max_sources |-> DefaultMaxSources] :
                   urls \in {<<>>, <<UrlBlog>>}}

Invoke(e) ==
    /\ pc[e] = "idle"
    /\ \A f \in Execs : f < e => pc[f] # "idle"
    /\ \E query \in QuerySet, user_input \in GraphInputs, budget \in RetryBudgets :
          state' = [state EXCEPT ![e] = [initial_state(query, user_input)
                                            EXCEPT !.max_retries = budget]]
    /\ pc' = [pc EXCEPT ![e] = "coordinator"]
    /\ UNCHANGED <<execution_history, conversation_history, research_cache,
                   analysis_cache, action_history, aux>>

NodeStep ==
    \E e \in Execs :
        /\ Alone(e)
        /\ \/ Coordinator(e)
           \/ ResearchIn(e, GraphEnvs)
           \/ AnalysisIn(e, GraphEnvs \cap LLMEnvs)
           \/ ActionIn(e, GraphEnvs \cap LLMEnvs)
           \/ Finalizer(e)
        /\ UNCHANGED call

GraphNext ==
    \/ \E e \in Execs : Alone(e) /\ Invoke(e) /\ UNCHANGED call
    \/ NodeStep

GraphSpec == Init /\ [][GraphNext]_vars /\ WF_vars(NodeStep)

\* ------------------------------------------------- the agents on their own
\* process() of an agent, and the helpers it is built from, called directly
\* with arguments drawn from the sets below.
MaxBatch == 3        \* longest urls list handed to ResearchAgent.process
MaxItems == 7        \* longest action_plan / success_metrics list scored

\* max_sources as the command line accepts it (validate_user_input: 1..20)
BatchMaxSources == {1, 2, DefaultMaxSources}

\* The collaborators of a direct call: the outcome of a URL matters only
\* when the URL is in the batch
BatchEnvs(urls) ==
    {[raises |-> FALSE, health_ok |-> health_ok, search_ok |-> search_ok,
      url_out |-> [u \in URLS |-> IF u \in Range(urls) THEN out[u] ELSE "content"],
      llm_fail_at |-> llm_fail_at, n_actions |-> 0] :
        health_ok \in BOOLEAN, search_ok \in BOOLEAN,
        llm_fail_at \in 0..MaxLLMFail, out \in [Range(urls) -> UrlOutcomes]}

ResearchCallOf(query, urls, search_terms, max_sources, env) ==
    [op |-> "research",
     input |-> [query |-> query, urls |-> urls, search_terms |-> search_terms,
                max_sources |-> max_sources],
     env |-> env, out |-> None, returned |-> FALSE]

\* research_data as a Research attempt leaves it, for a query and the
\* content_gathered items given
ResearchData(query, items) ==
    [query |-> query, sources_researched |-> <<>>, content_gathered |-> items,
     search_results |-> <<>>, summary |-> "summary", recommendations |-> <<>>,
     status |-> "completed"]

ContentItems ==
    {<<>>,
     <<[url |-> UrlBad, type |-> "error", error |-> "exception"]>>,
     <<[url |-> UrlCdn, type |-> "fetched", content |-> ""]>>,
     <<[url |-> UrlBlog, type |-> "scraped", title |-> "title", content |-> "text"]>>}

AnalysisData ==
    {None, EmptyMapping, ResearchValidationError, NodeFailure,
     [status |-> "completed", summary |-> "summary"]}
    \cup {ResearchData(query, items) : query \in QuerySet, items \in ContentItems}

LLMOnlyEnvs == {env \in LLMEnvs : ~env.raises}

AnalysisCalls ==
    {[op |-> "analysis", input |-> [research_data |-> research_data,
                                     analysis_type |-> "comprehensive"],
      env |-> env, out |-> None, returned |-> FALSE] :
        research_data \in AnalysisData, env \in {x \in LLMOnlyEnvs : x.n_actions = 0}}

ActionCalls ==
    {[op |-> "action", input |-> [analysis_data |-> analysis_data,
                                   research_data |-> research_data,
                                   original_query |-> "q"],
      env |-> env, out |-> None, returned |-> FALSE] :
        analysis_data \in {None, EmptyMapping, NodeFailure,
                           [status |-> "completed", key_insights |-> <<"insight">>]},
        research_data \in {None, ResearchValidationError, ResearchData("q", <<>>)},
        env \in LLMOnlyEnvs}

\* ---- what json.loads makes of an LLM response
\* A response is unparseable text, or the text of a JSON object, of a JSON
\* array of objects, or of a JSON array of strings.
ResponseKinds == {"text", "object", "array_of_objects", "array_of_strings"}

JObject == [json |-> "object"]
JString == [json |-> "string"]
JArray(items) == [json |-> "array", items |-> items]
JSONDecodeError == [json |-> "JSONDecodeError"]

json_loads(response) ==
    IF response = "text" THEN JSONDecodeError
    ELSE IF response = "object" THEN JObject
    ELSE IF response = "array_of_objects" THEN JArray(<<JObject>>)
    ELSE JArray(<<JString>>)

\* The mapping a sub-step builds around the raw text when parsing fails
Wrapper == [json |-> "object", raw |-> "text"]

\* try: return json.loads(response) / except JSONDecodeError: return {...}
ParsedOrWrapper(response) ==
    IF json_loads(response) = JSONDecodeError THEN Wrapper ELSE json_loads(response)

\* try: x = json.loads(response); return x if isinstance(x, list) else [x]
\* except JSONDecodeError: return [{...}]          (a Python list is a sequence)
ParsedListOrWrapper(response) ==
    LET parsed == json_loads(response)
    IN  IF parsed = JSONDecodeError THEN <<Wrapper>>
        ELSE IF parsed.json = "array" THEN parsed.items
        ELSE <<parsed>>

\* x.copy() / x.get(...) work on a mapping only
IsMapping(v) == v.json = "object"

\* ---- AnalysisAgent.process, sub-step by sub-step, no LLM call raising
AnalysisResponses ==
    [evaluation : ResponseKinds, insights : ResponseKinds,
     patterns : ResponseKinds, recommendations : ResponseKinds]

AnalysisSteps(research_data, responses) ==
    [result |-> [source_evaluation |-> ParsedOrWrapper(responses.evaluation),
                 key_insights |-> ParsedListOrWrapper(responses.insights),
                 patterns_identified |-> ParsedListOrWrapper(responses.patterns),
                 synthesis |-> "text",
                 recommendations |-> ParsedListOrWrapper(responses.recommendations),
                 confidence_scores |-> [analysis_depth |-> "medium"],
                 limitations |-> <<"text">>,
                 status |-> "completed"],
     steps_run |-> 7]

AnalysisStepCalls ==
    {[op |-> "analysis_steps",
      input |-> [research_data |-> ResearchData("q", items), responses |-> responses],
      env |-> None, out |-> None, returned |-> FALSE] :
        items \in {i \in ContentItems : HasContent(ResearchData("q", i))},
        responses \in AnalysisResponses}

\* ---- ActionAgent.process, sub-step by sub-step, no LLM call raising
ActionResponses ==
    [strategic : ResponseKinds, plan : ResponseKinds, urgency : ResponseKinds,
     metrics : ResponseKinds, roadmap : {"text", "object"},
     risks : {"text", "object"}, resources : {"text", "object"}]

\* _prioritize_actions: raised is TRUE when action.copy(), action.get(...) or
\* the sort key's urgency_assessment.get(...) raises AttributeError
_prioritize_actions(action_plan, urgency_response) ==
    IF action_plan = <<>> THEN [raised |-> FALSE, value |-> <<>>]
    ELSE IF \E i \in 1..Len(action_plan) : ~IsMapping(action_plan[i])
    THEN [raised |-> TRUE, value |-> <<>>]
    ELSE IF ~IsMapping(ParsedOrWrapper(urgency_response))
    THEN [raised |-> TRUE, value |-> <<>>]
    ELSE [raised |-> FALSE,
          value |-> Take([i \in 1..Len(action_plan) |->
                             [json |-> "object",
                              urgency_assessment |-> ParsedOrWrapper(urgency_response)]],
                         5)]

ActionSteps(input, responses) ==
    LET strategic == ParsedOrWrapper(responses.strategic)
        plan == ParsedListOrWrapper(responses.plan)
        prioritized == _prioritize_actions(plan, responses.urgency)
        start == [original_query |-> input.original_query,
                  strategic_assessment |-> strategic,
                  action_plan |-> plan,
                  priority_actions |-> <<>>,
                  implementation_roadmap |-> EmptyMapping,
                  success_metrics |-> <<>>,
                  risk_assessment |-> EmptyMapping,
                  resource_requirements |-> EmptyMapping,
                  final_recommendations |-> <<>>,
                  next_steps |-> <<>>,
                  status |-> "completed",
                  execution_score |-> 0]
        done == [start EXCEPT
                    !.priority_actions = prioritized.value,
                    !.implementation_roadmap =
                        IF prioritized.value = <<>>
                        THEN [phases |-> <<>>, timeline |-> "Not determined"]
                        ELSE ParsedOrWrapper(responses.roadmap),
                    !.success_metrics = ParsedListOrWrapper(responses.metrics),
                    !.risk_assessment = ParsedOrWrapper(responses.risks),
                    !.resource_requirements = ParsedOrWrapper(responses.resources),
                    !.final_recommendations = <<"recommendation">>,
                    !.next_steps = Take(prioritized.value, 3)]
    IN  IF ~Truthy(input.analysis_data) /\ ~Truthy(input.research_data)
        THEN [result |-> ActionNoDataError, steps_run |-> 0]
        ELSE IF prioritized.raised
        THEN [result |-> [f \in DOMAIN start \cup {"error"} |->
                            IF f = "status" THEN "failed"
                            ELSE IF f = "error" THEN "AttributeError" ELSE start[f]],
              steps_run |-> 2]
        ELSE [result |-> [done EXCEPT !.execution_score = _calculate_execution_score(done)],
              steps_run |-> 10]

ActionStepCalls ==
    {[op |-> "action_steps",
      input |-> [analysis_data |-> [status |-> "completed", key_insights |-> <<"insight">>],
                 research_data |-> ResearchData("q", <<>>),
                 original_query |-> "q", responses |-> responses],
      env |-> None, out |-> None, returned |-> FALSE] :
        responses \in ActionResponses}

\* ---- _calculate_execution_score on partial or missing sub-results
Items(n) == [i \in 1..n |-> "item"]

ScoreInputs ==
    {EmptyMapping, ActionNoDataError}
    \cup [action_plan : {Items(n) : n \in 0..MaxItems},
          success_metrics : {Items(n) : n \in 0..MaxItems},
          strategic_assessment : {EmptyMapping, [assessment |-> "text"]},
          risk_assessment : {EmptyMapping, [risk_assessment |-> "text"]},
          resource_requirements : {EmptyMapping, [resources |-> "text"]}]
    \cup [action_plan : {Items(n) : n \in 0..MaxItems},
          strategic_assessment : {EmptyMapping, [assessment |-> "text"]}]

ScoreCalls ==
    {[op |-> "score", input |-> action_results, env |-> None,
      out |-> None, returned |-> FALSE] : action_results \in ScoreInputs}

\* ---- _should_scrape_url on URLs of every shape it distinguishes
Schemes == {"http", "https", "ftp"}
Hosts == {<<"blog", "example", "com">>, <<"cdn", "example", "com">>,
          <<"www", "site", "org">>, <<"news", "site", "org">>,
          <<"article", "io">>, <<"blogger", "com">>, <<"blog">>}
Paths == {<< <<"">> >>,
          << <<"">>, <<"">> >>,
          << <<"">>, <<"post">> >>,
          << <<"">>, <<"data", "json">> >>,
          << <<"">>, <<"index", "html">> >>,
          << <<"">>, <<"v1", "2">>, <<"page", "php">> >>,
          << <<"">>, <<"site", "aspx">>, <<"archive", "tar", "gz">> >>,
          << <<"">>, <<"dir", "htm">>, <<"">> >>,
          << <<"">>, <<"html">> >>}
ClassifiedUrls == [scheme : Schemes, netloc : Hosts, path : Paths]

\* The MCP requests ResearchAgent.process sends for one URL of the batch
McpOperations(url) ==
    IF _should_scrape_url(url) THEN <<"scrape_url">> ELSE <<"fetch_url">>

ClassifyCalls ==
    {[op |-> "classify", input |-> url, env |-> None,
      out |-> None, returned |-> FALSE] : url \in ClassifiedUrls}

\* ---- _prioritize_actions on plans of well-formed actions
\* An action is a mapping whose priority, when present, is a string; an
\* urgency response is unparseable text or the text of a JSON object whose
\* urgency_score, when present, is a number.
MaxPlanned == 6      \* longest action plan prioritized

priority_scores == [critical |-> 4, high |-> 3, medium |-> 2, low |-> 1]

\* str.lower() on the priorities used here
lower(text) == IF text = "HIGH" THEN "high" ELSE text

\* A score table lookup that treats every unlisted priority as low
PriorityScore_unknown_low(action) ==
    LET priority == lower(GetOr(action, "priority", "medium"))
    IN  IF priority \in DOMAIN priority_scores THEN priority_scores[priority] ELSE 1

\* priority_scores.get(action.get("priority", "medium").lower(), 2)
PriorityScore(action) ==
    LET priority == lower(GetOr(action, "priority", "medium"))
    IN  IF priority \in DOMAIN priority_scores THEN priority_scores[priority] ELSE 2

UrgencyText == [text |-> "as soon as possible"]
UrgencyJson(assessment) == [json |-> assessment]

_assess_action_urgency(response) ==
    IF "json" \in DOMAIN response THEN response.json
    ELSE [urgency_level |-> "moderate", urgency_score |-> 5,
          factors |-> <<response.text>>]

\* What the LLM is given to work with: the priority of an action ("None":
\* the key is missing) and the LLM's urgency response for it
ActionKinds ==
    {[priority |-> "critical",
      response |-> UrgencyJson([urgency_level |-> "flexible", urgency_score |-> 3])],
     [priority |-> "HIGH",
      response |-> UrgencyJson([urgency_level |-> "immediate", urgency_score |-> 8])],
     [priority |-> "None", response |-> UrgencyJson([urgency_level |-> "soon"])],
     [priority |-> "urgent", response |-> UrgencyText],
     [priority |-> "low",
      response |-> UrgencyJson([urgency_level |-> "immediate", urgency_score |-> 8])]}

\* The i-th action of a plan
PlannedAction(i, kind) ==
    IF kind.priority = "None" THEN [title |-> i]
    ELSE [title |-> i, priority |-> kind.priority]

\* action.copy() with the two keys added
ActionCopy(action, assessment) ==
    [f \in DOMAIN action \cup {"priority_score", "urgency_assessment"} |->
        IF f = "priority_score" THEN PriorityScore(action)
        ELSE IF f = "urgency_assessment" THEN assessment
        ELSE action[f]]

\* key=lambda x: (priority_score, urgency_assessment.get("urgency_score", 0))
SortKey(x) == <<x.priority_score, GetOr(x.urgency_assessment, "urgency_score", 0)>>

\* A comparison that looks at the priority score only
KeyGreater_priority_only(a, b) == a[1] > b[1]

\* Tuple comparison a > b
KeyGreater(a, b) == a[1] > b[1] \/ (a[1] = b[1] /\ a[2] > b[2])

\* list.sort(key=..., reverse=True): descending, equal keys keep their order
RECURSIVE InsertDescending(_, _)
InsertDescending(x, sorted) ==
    IF sorted = <<>> THEN <<x>>
    ELSE IF KeyGreater(SortKey(x), SortKey(Head(sorted))) THEN <<x>> \o sorted
    ELSE <<Head(sorted)>> \o InsertDescending(x, Tail(sorted))

RECURSIVE sort_reverse(_)
sort_reverse(list) ==
    IF list = <<>> THEN <<>>
    ELSE InsertDescending(list[Len(list)], sort_reverse(SubSeq(list, 1, Len(list) - 1)))

\* _prioritize_actions: the list it returns and the LLM calls it makes
prioritized_actions(action_plan, responses) ==
    IF action_plan = <<>> THEN [value |-> <<>>, llm_calls |-> 0]
    ELSE [value |-> Take(sort_reverse([i \in 1..Len(action_plan) |->
                                          ActionCopy(action_plan[i],
                                                     _assess_action_urgency(responses[i]))]),
                         5),
          llm_calls |-> Len(action_plan)]

PrioritizeCallOf(kinds) ==
    [op |-> "prioritize",
     input |-> [action_plan |-> [i \in 1..Len(kinds) |-> PlannedAction(i, kinds[i])],
                responses |-> [i \in 1..Len(kinds) |-> kinds[i].response]],
     env |-> None, out |-> None, returned |-> FALSE]

\* ---- the calls
Answer(out) == call' = [call EXCEPT !.out = out, !.returned = TRUE]

Pending(op) == call.op = op /\ ~call.returned

ResearchCall ==
    /\ Pending("research")
    /\ LET out == ResearchProcess(call.input, call.env)
       IN  /\ Answer(out)
           /\ conversation_history' =
                  [conversation_history EXCEPT
                      !["research"] = @ \o Exchanges(out.llm_returned)]
           /\ research_cache' =
                  IF out.cached
                  THEN research_cache \cup {[query |-> call.input.query,
                                             urls |-> call.input.urls]}
                  ELSE research_cache
    /\ UNCHANGED <<pc, state, execution_history, analysis_cache, action_history, aux>>

AnalysisCall ==
    /\ Pending("analysis")
    /\ LET out == AnalysisProcess(call.input, call.env)
       IN  /\ Answer(out)
           /\ conversation_history' =
                  [conversation_history EXCEPT
                      !["analysis"] = @ \o Exchanges(out.llm_returned)]
           /\ analysis_cache' =
                  IF out.cached
                  THEN analysis_cache \cup {[analysis_type |-> call.input.analysis_type,
                                             research_data |-> call.input.research_data]}
                  ELSE analysis_cache
    /\ UNCHANGED <<pc, state, execution_history, research_cache, action_history, aux>>

ActionCall ==
    /\ Pending("action")
    /\ LET out == ActionProcess(call.input, call.env)
       IN  /\ Answer(out)
           /\ conversation_history' =
                  [conversation_history EXCEPT
                      !["action"] = @ \o Exchanges(out.llm_returned)]
           /\ action_history' = IF out.stored THEN action_history + 1 ELSE action_history
    /\ UNCHANGED <<pc, state, execution_history, research_cache, analysis_cache, aux>>

AnalysisStepsCall ==
    /\ Pending("analysis_steps")
    /\ Answer(AnalysisSteps(call.input.research_data, call.input.responses))
    /\ UNCHANGED <<pc, state, execution_history, conversation_history, research_cache,
                   analysis_cache, action_history, aux>>

ActionStepsCall ==
    /\ Pending("action_steps")
    /\ Answer(ActionSteps(call.input, call.input.responses))
    /\ UNCHANGED <<pc, state, execution_history, conversation_history, research_cache,
                   analysis_cache, action_history, aux>>

ScoreCall ==
    /\ Pending("score")
    /\ Answer([score |-> _calculate_execution_score(call.input)])
    /\ UNCHANGED <<pc, state, execution_history, conversation_history, research_cache,
                   analysis_cache, action_history, aux>>

ClassifyCall ==
    /\ Pending("classify")
    /\ Answer([scrape |-> _should_scrape_url(call.input),
               operations |-> McpOperations(call.input)])
    /\ UNCHANGED <<pc, state, execution_history, conversation_history, research_cache,
                   analysis_cache, action_history, aux>>

PrioritizeCall ==
    /\ Pending("prioritize")
    /\ LET out == prioritized_actions(call.input.action_plan, call.input.responses)
       IN  /\ Answer(out)
           /\ conversation_history' =
                  [conversation_history EXCEPT
                      !["action"] = @ \o Exchanges(out.llm_calls)]
    /\ UNCHANGED <<pc, state, execution_history, research_cache, analysis_cache,
                   action_history, aux>>

AgentInit ==
    /\ pc = [e \in Execs |-> "idle"]
    /\ state = [e \in Execs |-> initial_state("", [urls |-> <<>>, search_terms |-> <<>>,
                                                    max_sources |-> DefaultMaxSources])]
    /\ execution_history = <<>>
    /\ conversation_history = [a \in AgentNames |-> <<>>]
    /\ research_cache = {}
    /\ analysis_cache = {}
    /\ action_history = 0
    /\ aux = [e \in Execs |-> InitAux]
    /\ \/ \E query \in QuerySet, search_terms \in SearchTermLists,
             max_sources \in BatchMaxSources, urls \in SeqsUpTo(URLS, MaxBatch) :
             \E env \in BatchEnvs(urls) :
                call = ResearchCallOf(query, urls, search_terms, max_sources, env)
       \/ call \in AnalysisCalls
       \/ call \in ActionCalls
       \/ call \in AnalysisStepCalls
       \/ call \in ActionStepCalls
       \/ call \in ScoreCalls
       \/ call \in ClassifyCalls
       \/ \E kinds \in SeqsUpTo(ActionKinds, MaxPlanned) : call = PrioritizeCallOf(kinds)

AgentNext ==
    \/ ResearchCall
    \/ AnalysisCall
    \/ ActionCall
    \/ AnalysisStepsCall
    \/ ActionStepsCall
    \/ ScoreCall
    \/ ClassifyCall
    \/ PrioritizeCall

AgentSpec == AgentInit /\ [][AgentNext]_vars

\* --------------------------------------- one agent's conversation history
\* invoke_llm is a coroutine: it builds the chat messages, awaits
\* llm.ainvoke, and on resumption logs the exchange with two add_to_history
\* calls before it returns.  Several invoke_llm calls on one agent interleave
\* at that await; clear_history may be called at any time.
MaxCalls == 3        \* invoke_llm calls made on the one agent

Calls == 1..MaxCalls
HistoryAgent == "research"

\* Texts are sequences; "" is <<>>
Prompt(c) == <<"prompt", c>>
Response(c) == <<"response", c>>
MessageLists(c) == {<<>>, <<[role |-> "user", content |-> Prompt(c)]>>}

\* messages[-1]["content"] if messages else ""
LastContent(messages) ==
    IF messages = <<>> THEN <<>> ELSE messages[Len(messages)].content

\* A history that keeps its four latest entries
add_to_history_trimmed(history, role, content) ==
    LET longer == Append(history, [role |-> role, content |-> content,
                                   agent |-> HistoryAgent])
    IN  IF Len(longer) > 4 THEN Tail(longer) ELSE longer

add_to_history(history, role, content) ==
    Append(history, [role |-> role, content |-> content, agent |-> HistoryAgent])

\* A log that records the answer only
LogConversation_assistant_only(history, messages, response) ==
    add_to_history(history, "assistant", response)

\* invoke_llm after the await: the two add_to_history calls
LogConversation(history, messages, response) ==
    add_to_history(add_to_history(history, "user", LastContent(messages)),
                   "assistant", response)

\* call.status[c]: new, awaiting, returned or raised; call.messages[c]: the
\* argument of call c; call.completed: the calls that returned since the last
\* clear_history, in the order they returned
HistoryCalls ==
    [op |-> "invoke_llm",
     status |-> [c \in Calls |-> "new"],
     messages |-> [c \in Calls |-> <<>>],
     completed |-> <<>>]

\* invoke_llm up to the await
InvokeLLM(c) ==
    /\ call.status[c] = "new"
    /\ \A d \in Calls : d < c => call.status[d] # "new"
    /\ \E messages \in MessageLists(c) :
          call' = [call EXCEPT !.status[c] = "awaiting", !.messages[c] = messages]
    /\ UNCHANGED <<pc, state, execution_history, conversation_history, research_cache,
                   analysis_cache, action_history, aux>>

\* llm.ainvoke answers: the exchange is logged and invoke_llm returns
LLMReturns(c) ==
    /\ call.status[c] = "awaiting"
    /\ conversation_history' =
           [conversation_history EXCEPT
               ![HistoryAgent] = LogConversation(@, call.messages[c], Response(c))]
    /\ call' = [call EXCEPT !.status[c] = "returned",
                            !.completed = Append(@, c)]
    /\ UNCHANGED <<pc, state, execution_history, research_cache,
                   analysis_cache, action_history, aux>>

\* llm.ainvoke raises: the exception leaves invoke_llm
LLMRaises(c) ==
    /\ call.status[c] = "awaiting"
    /\ call' = [call EXCEPT !.status[c] = "raised"]
    /\ UNCHANGED <<pc, state, execution_history, conversation_history, research_cache,
                   analysis_cache, action_history, aux>>

clear_history ==
    /\ conversation_history' = [conversation_history EXCEPT ![HistoryAgent] = <<>>]
    /\ call' = [call EXCEPT !.completed = <<>>]
    /\ UNCHANGED <<pc, state, execution_history, research_cache,
                   analysis_cache, action_history, aux>>

HistoryInit ==
    /\ pc = [e \in Execs |-> "idle"]
    /\ state = [e \in Execs |-> initial_state("", [urls |-> <<>>, search_terms |-> <<>>,
                                                    max_sources |-> DefaultMaxSources])]
    /\ execution_history = <<>>
    /\ conversation_history = [a \in AgentNames |-> <<>>]
    /\ research_cache = {}
    /\ analysis_cache = {}
    /\ action_history = 0
    /\ aux = [e \in Execs |-> InitAux]
    /\ call = HistoryCalls

HistoryNext ==
    \/ \E c \in Calls : InvokeLLM(c)
    \/ \E c \in Calls : LLMReturns(c)
    \/ \E c \in Calls : LLMRaises(c)
    \/ clear_history

HistorySpec == HistoryInit /\ [][HistoryNext]_vars

\* ================================================================ claims
Count(seq, x) == Cardinality({i \in 1..Len(seq) : seq[i] = x})
AgentInvocations(e) == Cardinality({i \in 1..Len(aux[e].trace) : aux[e].trace[i] \in AgentNames})
AgentsInvoked(e) == Range(aux[e].trace) \cap AgentNames
Started(e) == pc[e] # "idle"
SlotOf(agent) ==
    IF agent = "research" THEN "research_results"
    ELSE IF agent = "analysis" THEN "analysis_results"
    ELSE "action_results"
FailedSteps == {"research_failed", "analysis_failed", "action_failed"}
FailedAgentStep(agent) ==
    IF agent = "research" THEN "research_failed"
    ELSE IF agent = "analysis" THEN "analysis_failed"
    ELSE "action_failed"

\* C1: when the Coordinator routes to end because the retry budget is spent,
\* the Finalizer completes without raising, execute() returns a final_output
\* and exactly one execution-history entry with success = FALSE is appended.
C1_RetryExhaustionFinalizes ==
    \A e \in Execs :
        (aux[e].exhausted /\ Finished(e)) =>
            /\ pc[e] = "done"
            /\ ~IsNone(state[e].final_output)
            /\ aux[e].entry > 0
            /\ Len(execution_history) = 1
            /\ execution_history[aux[e].entry].success = FALSE

\* C2 as stated: when every URL of the request raises, research_results is
\* "failed", and the finished execution shows "research" max_retries + 1
\* times in step_history and success = FALSE in its history entry.
C2_ScenarioB_Original ==
    \A e \in Execs :
        aux[e].url_failures_only =>
            /\ Status(state[e].research_results) = "failed"
            /\ Finished(e) =>
                  /\ Count(state[e].step_history, "research") = state[e].max_retries + 1
                  /\ aux[e].entry > 0
                  /\ execution_history[aux[e].entry].success = FALSE

\* C2 as amended: when every URL of the request raises (health check,
\* searches and LLM calls succeeding), each visited URL becomes an error
\* entry, research_results stays "completed", Research is not invoked again,
\* step_history holds "research" exactly once, and the history entry has
\* success = TRUE when Analysis and Action then store no failure.
C2_ScenarioB ==
    \A e \in Execs :
        aux[e].url_failures_only =>
            LET s == state[e]
                rr == s.research_results
            IN  /\ Status(rr) = "completed"
                /\ rr.sources_researched = <<>>
                /\ Len(rr.content_gathered) =
                       Min(Len(s.user_input.urls), s.user_input.max_sources)
                /\ \A i \in 1..Len(rr.content_gathered) :
                       /\ rr.content_gathered[i].type = "error"
                       /\ rr.content_gathered[i].url = s.user_input.urls[i]
                /\ pc[e] # "research"
                /\ Count(s.step_history, "research") = 1
                /\ (/\ pc[e] = "done"
                    /\ Status(s.analysis_results) # "failed"
                    /\ Status(s.action_results) # "failed")
                   => execution_history[aux[e].entry].success = TRUE

C2_Witness ==
    \E e \in Execs :
        /\ aux[e].url_failures_only
        /\ pc[e] = "done"
        /\ state[e].user_input.urls = <<UrlBad>>
        /\ state[e].retry_count = 0
        /\ execution_history[aux[e].entry].success = TRUE

\* C3: the number of Research + Analysis + Action node invocations of an
\* execution never exceeds 3 + max_retries, whatever the agents' outcomes.
C3_InvocationBound ==
    \A e \in Execs : AgentInvocations(e) <= 3 + state[e].max_retries

C3_Witness ==
    \E e \in Execs :
        /\ AgentInvocations(e) = 3 + state[e].max_retries
        /\ state[e].retry_count = state[e].max_retries
        /\ pc[e] = "done"

\* C4: in step_history every "analysis" comes after a "research" and every
\* "action" after an "analysis"; the Analysis node starts only after a
\* Research node has finished, the Action node only after an Analysis node.
C4_StepOrder ==
    \A e \in Execs :
        LET h == state[e].step_history
            t == aux[e].trace
        IN  /\ \A j \in 1..Len(h) :
                  /\ h[j] = "analysis" => \E i \in 1..(j - 1) : h[i] = "research"
                  /\ h[j] = "action" => \E i \in 1..(j - 1) : h[i] = "analysis"
            /\ \A j \in 1..Len(t) :
                  /\ t[j] = "analysis" => \E i \in 1..(j - 1) : t[i] = "research"
                  /\ t[j] = "action" => \E i \in 1..(j - 1) : t[i] = "analysis"
            /\ pc[e] = "analysis" => "research" \in Range(h)
            /\ pc[e] = "action" => "analysis" \in Range(h)

C4_Witness ==
    \E e \in Execs :
        /\ state[e].step_history = <<"research", "analysis", "action">>
        /\ state[e].retry_count > 0
        /\ pc[e] = "done"

C6_NodeCatches ==
    [][\A e \in Execs :
         (/\ pc[e] \in AgentNames
          /\ aux'[e].trace # aux[e].trace
          /\ aux'[e].raised) =>
            LET s == state[e]
                t == state'[e]
                own == SlotOf(pc[e])
            IN  /\ t[own] = [error |-> "exception", status |-> "failed"]
                /\ t.current_step = FailedAgentStep(pc[e])
                /\ pc'[e] \in {"coordinator", "finalizer"}
                /\ \A f \in DOMAIN s \ {own, "current_step"} : t[f] = s[f]]_vars

C6_Witness ==
    \E e \in Execs :
        /\ aux[e].raised
        /\ state[e].current_step = "analysis_failed"
        /\ Status(state[e].research_results) = "completed"
        /\ state[e].step_history = <<"research">>

\* C7: an execute() call with an empty query, no URLs and no search terms
\* makes no LLM call and no MCP call, changes no conversation history or
\* cache, and ends with a structured {error, status:"failed"} result.
C7_ValidationRejected ==
    \A e \in Execs :
        (/\ Started(e)
         /\ state[e].original_query = ""
         /\ state[e].user_input.urls = <<>>
         /\ state[e].user_input.search_terms = <<>>) =>
            /\ aux[e].llm_calls = 0
            /\ aux[e].mcp_calls = 0
            /\ \A a \in AgentNames : conversation_history[a] = <<>>
            /\ research_cache = {} /\ analysis_cache = {} /\ action_history = 0
            /\ pc[e] = "done" => Status(state[e].final_output) = "failed"

\* C8: the success flag of the history entry an execution appends is TRUE
\* exactly when research, analysis and action all occur in step_history and
\* none of the three result slots carries status "failed".
C8_SuccessFlag ==
    \A e \in Execs :
        aux[e].entry > 0 =>
            LET s == state[e]
            IN  execution_history[aux[e].entry].success
                <=> /\ AgentNames \subseteq Range(s.step_history)
                    /\ \A a \in AgentNames : Status(s[SlotOf(a)]) # "failed"

C8_Witness ==
    \E e \in Execs :
        /\ aux[e].entry > 0
        /\ AgentNames \subseteq Range(state[e].step_history)
        /\ Status(state[e].research_results) = "completed"
        /\ Status(state[e].analysis_results) = "completed"
        /\ Status(state[e].action_results) = "failed"
        /\ execution_history[aux[e].entry].success = FALSE

\* C9: once a result slot holds a result with status "completed", no later
\* node invocation replaces it with a failed record.
C9_SuccessKept ==
    [][\A e \in Execs : \A a \in AgentNames :
         (Started(e) /\ Status(state[e][SlotOf(a)]) = "completed")
            => Status(state'[e][SlotOf(a)]) = "completed"]_vars

C9_Witness ==
    \E e \in Execs :
        /\ Status(state[e].research_results) = "completed"
        /\ Count(aux[e].trace, "analysis") = 2
        /\ aux[e].raised
        /\ Status(state[e].analysis_results) = "failed"

\* C10 as stated: two Coordinator calls in a row, with nothing else touching
\* the state in between, yield the same next_agent.
C10_Idempotent_Original ==
    \A e \in Execs :
        pc[e] = "coordinator" =>
            _coordinator_node(_coordinator_node(state[e])).next_agent
                = _coordinator_node(state[e]).next_agent

\* C10 as amended: the first Coordinator call leaves current_step =
\* "coordinated", so a second call in a row always yields next_agent "end";
\* the two calls agree exactly when the first one already yields "end".
C10_SecondCallEnds ==
    \A e \in Execs :
        pc[e] = "coordinator" =>
            LET once == _coordinator_node(state[e])
                twice == _coordinator_node(once)
            IN  /\ twice.next_agent = "end"
                /\ twice.retry_count = once.retry_count
                /\ (twice.next_agent = once.next_agent) <=> (once.next_agent = "end")

C10_Witness ==
    \E e \in Execs :
        /\ pc[e] = "coordinator"
        /\ state[e].current_step = "analysis_failed"
        /\ state[e].retry_count < state[e].max_retries
        /\ _coordinator_node(state[e]).next_agent = "analysis"

\* C11: for every execution that returns a final_output,
\* final_output.workflow_metadata.steps_executed is the final step_history
\* (same entries, same order), and so is the steps_executed of the
\* execution-history entry the execution appended.
C11_StepsRoundTrip ==
    \A e \in Execs :
        pc[e] = "done" =>
            /\ ~IsNone(state[e].final_output)
            /\ state[e].final_output.workflow_metadata.steps_executed = state[e].step_history
            /\ aux[e].entry \in 1..Len(execution_history)
            /\ execution_history[aux[e].entry].steps_executed = state[e].step_history

C11_Witness ==
    \E e \in Execs :
        /\ pc[e] = "done"
        /\ state[e].retry_count = state[e].max_retries
        /\ state[e].final_output.workflow_metadata.steps_executed = <<"research", "analysis">>
        /\ execution_history[aux[e].entry].steps_executed = <<"research", "analysis">>

\* The states a node can return, and the node that follows, computed from
\* the execution's own state record alone
OwnSuccessors(node, s) ==
    IF node = "coordinator" THEN {_coordinator_node(s)}
    ELSE IF node = "research" THEN {_research_node(s, env) : env \in ConcEnvs}
    ELSE IF node = "analysis" THEN {_analysis_node(s, env) : env \in ConcEnvs}
    ELSE IF node = "action" THEN {_action_node(s, env) : env \in ConcEnvs}
    ELSE IF FinalizerRaises(s) THEN {s}
    ELSE {[s EXCEPT !.final_output = _prepare_final_output(s),
                    !.execution_summary = _create_execution_summary(s)]}
OwnFollower(node, s, t) ==
    IF node = "coordinator" THEN NodeOf(_route_from_coordinator(t))
    ELSE IF node = "research" THEN NodeOf(_route_from_research(t))
    ELSE IF node = "analysis" THEN NodeOf(_route_from_analysis(t))
    ELSE IF node = "action" THEN NodeOf(_route_from_action(t))
    ELSE IF FinalizerRaises(s) THEN "raised" ELSE "done"

\* C12: under any interleaving of concurrent execute() calls, a step of one
\* execution leaves the state record, position and observations of every
\* other execution untouched; the state it produces and the node that
\* follows are functions of its own state record and its own agent's
\* outcome; query and user_input never change; and the final_output it
\* returns carries its own query, steps and retry count.
C12_ExecutionLocal ==
    /\ [][\A e \in Execs :
            (state'[e] # state[e] \/ pc'[e] # pc[e]) =>
                /\ \A f \in Execs \ {e} :
                       state'[f] = state[f] /\ pc'[f] = pc[f] /\ aux'[f] = aux[f]
                /\ pc[e] # "idle" =>
                       /\ state'[e] \in OwnSuccessors(pc[e], state[e])
                       /\ pc'[e] = OwnFollower(pc[e], state[e], state'[e])
                       /\ state'[e].original_query = state[e].original_query
                       /\ state'[e].user_input = state[e].user_input]_vars
    /\ [](\A e \in Execs :
            pc[e] = "done" =>
                LET out == state[e].final_output
                IN  /\ out.query = state[e].original_query
                    /\ out.workflow_metadata.steps_executed = state[e].step_history
                    /\ out.workflow_metadata.retry_count = state[e].retry_count
                    /\ Range(state[e].step_history) \subseteq Range(aux[e].trace))

C12_Witness ==
    /\ pc[1] = "action" /\ pc[2] = "research"
    /\ state[1].original_query # state[2].original_query
    /\ state[1].retry_count = 1 /\ state[2].retry_count = 2
    /\ state[1].step_history = <<"research", "analysis">>
    /\ state[2].step_history = <<>>

\* C13: after any interleaving of execute() calls, the execution history
\* holds exactly one entry for every execution that reached the Finalizer,
\* and that entry carries the execution's query.
C13_OneEntryPerExecution ==
    /\ Len(execution_history) = Cardinality({e \in Execs : Finished(e)})
    /\ \A e \in Execs :
           Finished(e) =>
               /\ aux[e].entry \in 1..Len(execution_history)
               /\ execution_history[aux[e].entry].query = state[e].original_query

\* C20: health_check() returns, whether the MCP health request answers or
\* raises, a mapping with exactly orchestrator, agents, mcp_server,
\* execution_history_count and timestamp; mcp_server is a string when the
\* request raised; the count is the length of the execution history; and
\* the call changes nothing of the orchestrator, the agents or the
\* executions in flight.
C20_HealthCheckNeverRaises ==
    [][(call' # call /\ call'.op = "health_check") =>
          LET out == call'.out
          IN  /\ DOMAIN out = {"orchestrator", "agents", "mcp_server",
                               "execution_history_count", "timestamp"}
              /\ out.orchestrator = "healthy"
              /\ IsStr(out.mcp_server) <=> call'.mcp_health = "raises"
              /\ out.execution_history_count = Len(execution_history)
              /\ \A a \in AgentNames :
                     \E k \in DOMAIN out.agents :
                        /\ out.agents[k].name = a
                        /\ out.agents[k].conversation_length = Len(conversation_history[a])
              /\ UNCHANGED <<pc, state, execution_history, conversation_history,
                             research_cache, analysis_cache, action_history, aux>>]_vars

C20_Witness ==
    /\ call.op = "health_check"
    /\ call.mcp_health = "raises"
    /\ IsStr(call.out.mcp_server)
    /\ call.out.execution_history_count = 1
    /\ call.out.agents.research_agent.conversation_length > 0
    /\ \E e \in Execs : pc[e] = "analysis"

\* ---- direct calls of the agents
Returned(op) == call.op = op /\ call.returned
PassesInputCheck(input) ==
    ~(input.query = "" /\ input.urls = <<>> /\ input.search_terms = <<>>)
McpReachable(c) ==
    c.env.health_ok /\ (c.input.search_terms = <<>> \/ c.env.search_ok)
\* LLM calls of a Research attempt: suggestions (query without URLs), summary
ResearchLLMCalls(input) == IF input.query # "" /\ input.urls = <<>> THEN 2 ELSE 1
NoLLMRaise(c) ==
    c.env.llm_fail_at = 0 \/ c.env.llm_fail_at > ResearchLLMCalls(c.input)

\* C14: research_data with no content items and no query makes
\* AnalysisAgent.process return status "failed" with an error message,
\* without any LLM call.
C14_NoContentNoQueryFails ==
    (/\ Returned("analysis")
     /\ ~HasContent(call.input.research_data)
     /\ GetOr(call.input.research_data, "query", "") = "") =>
        /\ Status(call.out.result) = "failed"
        /\ "error" \in DOMAIN call.out.result
        /\ call.out.llm_returned = 0
        /\ conversation_history["analysis"] = <<>>

\* C15 as stated: every ResearchAgent.process call that passes the
\* empty-input check returns the LLM's text as summary, whatever the health
\* check, the searches and the fetches and scrapes did.
C15_AlwaysSummary ==
    (Returned("research") /\ PassesInputCheck(call.input)) =>
        call.out.result.summary = "summary"

\* C15 as amended: a call that passes the empty-input check returns the
\* LLM's text as summary and status "completed", for every combination of
\* fetch and scrape outcomes, when the health check and the searches answer
\* and no LLM call raises; otherwise it returns status "failed" with an error
\* and the empty summary.
C15_SummaryWhenReachable ==
    (Returned("research") /\ PassesInputCheck(call.input)) =>
        LET result == call.out.result
        IN  IF McpReachable(call) /\ NoLLMRaise(call)
            THEN result.summary = "summary" /\ result.status = "completed"
            ELSE /\ result.summary = ""
                 /\ result.status = "failed"
                 /\ "error" \in DOMAIN result

C15_Witness ==
    /\ Returned("research")
    /\ Len(call.input.urls) = MaxBatch
    /\ call.input.max_sources >= MaxBatch
    /\ \A i \in 1..Len(call.input.urls) : call.env.url_out[call.input.urls[i]] = "error"
    /\ call.out.result.sources_researched = <<>>
    /\ call.out.result.summary = "summary"

\* What C16 says of the batch: the first min(len(urls), max_sources) URLs
\* are visited in order, content_gathered has one entry per visited URL in
\* that order, an error entry for each URL that raised, and
\* sources_researched is the subsequence of visited URLs that succeeded.
BatchAsClaimed(c) ==
    LET result == c.out.result
        n == Min(Len(c.input.urls), c.input.max_sources)
        ok == {i \in 1..n : c.env.url_out[c.input.urls[i]] # "error"}
        gathered == result.content_gathered
        sources == result.sources_researched
    IN  /\ Len(gathered) = n
        /\ \A i \in 1..n :
              /\ gathered[i].url = c.input.urls[i]
              /\ i \notin ok => /\ gathered[i].type = "error"
                                /\ DOMAIN gathered[i] = {"url", "type", "error"}
              /\ i \in ok => gathered[i].type \in {"scraped", "fetched"}
        /\ Len(sources) = Cardinality(ok)
        /\ \E f \in [1..Len(sources) -> 1..n] :
              /\ \A j, k \in 1..Len(sources) : j < k => f[j] < f[k]
              /\ {f[k] : k \in 1..Len(sources)} = ok
              /\ \A k \in 1..Len(sources) : sources[k] = c.input.urls[f[k]]

\* C16 as stated: when the health check and the searches succeed, the batch
\* is as described and the result status is "completed".
C16_BatchSurvives_Original ==
    (Returned("research") /\ PassesInputCheck(call.input) /\ McpReachable(call)) =>
        /\ BatchAsClaimed(call)
        /\ call.out.result.status = "completed"

\* C16 as amended: when the health check and the searches succeed, the batch
\* is as described whatever the URLs did; the result status is "completed"
\* exactly when no LLM call (suggestions, summary) raises afterwards, and
\* "failed" with the gathered entries kept when one does.
C16_BatchSurvives ==
    (Returned("research") /\ PassesInputCheck(call.input) /\ McpReachable(call)) =>
        /\ BatchAsClaimed(call)
        /\ call.out.result.status = IF NoLLMRaise(call) THEN "completed" ELSE "failed"

C16_Witness ==
    /\ Returned("research")
    /\ call.input.urls = <<UrlBad, UrlBlog, UrlCdn>>
    /\ call.input.max_sources = DefaultMaxSources
    /\ call.env.url_out[UrlBad] = "error"
    /\ call.env.url_out[UrlBlog] = "content"
    /\ call.env.url_out[UrlCdn] = "error"
    /\ call.out.result.sources_researched = <<UrlBlog>>
    /\ Len(call.out.result.content_gathered) = 3
    /\ call.out.result.content_gathered[2].type = "scraped"
    /\ call.out.result.status = "completed"

\* C17: whenever no LLM call raises, whatever mix of parseable JSON and
\* unparseable text the sub-steps receive, Analysis and Action run every
\* pipeline step and return status "completed".
C17_ParseNeverFails ==
    /\ Returned("analysis_steps") =>
          call.out.result.status = "completed" /\ call.out.steps_run = 7
    /\ Returned("action_steps") =>
          call.out.result.status = "completed" /\ call.out.steps_run = 10

\* The score as C18 words it
ClaimedScore(r) ==
    LET NonEmpty(k) == k \in DOMAIN r /\ DOMAIN r[k] # {}
        Number(k) == IF k \in DOMAIN r THEN Len(r[k]) ELSE 0
    IN  Min(30, 5 * Number("action_plan"))
        + (IF NonEmpty("strategic_assessment") THEN 20 ELSE 0)
        + (IF NonEmpty("risk_assessment") THEN 20 ELSE 0)
        + Min(15, 3 * Number("success_metrics"))
        + (IF NonEmpty("resource_requirements") THEN 15 ELSE 0)

\* C18: the execution score is an integer in 0..100 and equals
\* min(30, 5 x actions) + 20 (strategic assessment non-empty) + 20 (risk
\* assessment non-empty) + min(15, 3 x metrics) + 15 (resource requirements
\* non-empty), for complete, partial and missing sub-results; a result of
\* process() whose pipeline failed before the score step carries score 0.
C18_ScoreRange ==
    /\ Returned("score") =>
          /\ call.out.score \in 0..100
          /\ call.out.score = ClaimedScore(call.input)
    /\ (Returned("action") /\ "execution_score" \in DOMAIN call.out.result) =>
          LET result == call.out.result
          IN  /\ result.execution_score \in 0..100
              /\ result.status = "failed" => result.execution_score = 0
              /\ result.status = "completed" =>
                    result.execution_score = ClaimedScore(result)

C18_Witness ==
    /\ Returned("score")
    /\ DOMAIN call.input = {"action_plan", "strategic_assessment"}
    /\ Len(call.input.action_plan) = MaxItems
    /\ call.input.strategic_assessment # EmptyMapping
    /\ call.out.score = 50

\* C19: a URL is scraped when its host starts with www., blog., news. or
\* article., or its path ends in .html, .htm, .php, .asp or .aspx, or its
\* scheme is http or https and its last path segment has no dot; every other
\* URL is fetched.  https://blog.example.com/post is scraped,
\* https://cdn.example.com/data.json is fetched, and a URL goes to exactly
\* one of the two MCP operations.
C19_Classification ==
    /\ _should_scrape_url(UrlBlog)
    /\ ~_should_scrape_url(UrlCdn)
    /\ Returned("classify") =>
          LET url == call.input
              last == url.path[Len(url.path)]
              host_rule == \E d \in {"www", "blog", "news", "article"} :
                              Len(url.netloc) > 1 /\ url.netloc[1] = d
              extension_rule == \E x \in {"html", "htm", "php", "asp", "aspx"} :
                                   Len(last) > 1 /\ last[Len(last)] = x
              default_rule == url.scheme \in {"http", "https"} /\ Len(last) = 1
          IN  /\ call.out.scrape <=> (host_rule \/ extension_rule \/ default_rule)
              /\ call.out.operations =
                    IF call.out.scrape THEN <<"scrape_url">> ELSE <<"fetch_url">>
              /\ Len(call.out.operations) = 1

C19_Witness ==
    /\ Returned("classify")
    /\ call.input = UrlCdn
    /\ ~call.out.scrape
    /\ call.out.operations = <<"fetch_url">>

\* ---- the order of the nodes within one execution
IsPrefix(p, q) == Len(p) <= Len(q) /\ \A i \in 1..Len(p) : p[i] = q[i]
Follows(t, i) == t[i + 1]
Last(t) == t[Len(t)]

\* C21: the Analysis node is never invoked while research_results carries
\* status "failed", and the Action node never while analysis_results carries
\* status "failed".
C21_FailedNeverConsumed ==
    \A e \in Execs :
        /\ pc[e] = "analysis" => Status(state[e].research_results) # "failed"
        /\ pc[e] = "action" => Status(state[e].analysis_results) # "failed"

\* The agent node invoked last
LastAgent(t) ==
    t[CHOOSE i \in 1..Len(t) :
          t[i] \in AgentNames /\ \A j \in (i + 1)..Len(t) : t[j] \notin AgentNames]

\* C22: step_history is always a prefix of [research, analysis, action]; the
\* agent node invoked last has its name at the end of step_history when it
\* finished without raising and nowhere in it when it raised; and a node
\* whose name is in step_history is never invoked again.
C22_HistoryPrefix ==
    \A e \in Execs :
        LET h == state[e].step_history
            t == aux[e].trace
        IN  /\ IsPrefix(h, <<"research", "analysis", "action">>)
            /\ pc[e] \in AgentNames => pc[e] \notin Range(h)
            /\ Range(t) \cap AgentNames # {} =>
                  IF aux[e].raised THEN LastAgent(t) \notin Range(h)
                  ELSE h # <<>> /\ Last(h) = LastAgent(t)
            /\ Range(t) \cap AgentNames = {} => h = <<>>

C22_Witness ==
    \E e \in Execs :
        /\ state[e].step_history = <<"research", "analysis", "action">>
        /\ Count(aux[e].trace, "analysis") = 3
        /\ Count(aux[e].trace, "research") = 1

\* C23 as stated: the node executed immediately after every Research,
\* Analysis or Action node invocation is the Coordinator.
C23_CoordinatorAfterEveryAgent ==
    \A e \in Execs :
        LET t == aux[e].trace
        IN  \A i \in 1..(Len(t) - 1) :
                t[i] \in AgentNames => Follows(t, i) = "coordinator"

\* C23 as amended: the Coordinator is the first node of every execution; it
\* is the node that follows a Research or Analysis invocation exactly when
\* that invocation stored a result with status "failed"; otherwise the edge
\* router sends Research on to Analysis and Analysis on to Action without a
\* Coordinator step, and Action is never followed by the Coordinator; an
\* execution in which no agent stored a failure has one Coordinator step.
C23_CoordinatorAfterFailure ==
    \A e \in Execs :
        LET t == aux[e].trace
            s == state[e]
        IN  /\ t # <<>> => t[1] = "coordinator"
            /\ \A i \in 1..(Len(t) - 1) :
                   /\ t[i] = "research" => Follows(t, i) \in {"coordinator", "analysis"}
                   /\ t[i] = "analysis" => Follows(t, i) \in {"coordinator", "action"}
                   /\ t[i] = "action" => Follows(t, i) = "finalizer"
            /\ (t # <<>> /\ Last(t) \in {"research", "analysis"}) =>
                   (pc[e] = "coordinator" <=> Status(s[SlotOf(Last(t))]) = "failed")
            /\ (/\ pc[e] = "done"
                /\ s.retry_count = 0
                /\ \A a \in AgentNames : Status(s[SlotOf(a)]) = "completed")
               => Count(t, "coordinator") = 1

C23_Witness ==
    \E e \in Execs :
        /\ aux[e].trace = <<"coordinator", "research", "analysis", "action", "finalizer">>
        /\ pc[e] = "done"

\* C24: right after a Research node whose result carries status "failed" the
\* next node is the Coordinator, otherwise it is Analysis; right after an
\* Analysis node whose result carries status "failed" the next node is the
\* Coordinator, otherwise it is Action; whether the result was returned by
\* process() or written by the node's except branch.
C24_EdgeRouting ==
    \A e \in Execs :
        LET t == aux[e].trace
        IN  t # <<>> =>
               /\ Last(t) = "research" =>
                     /\ pc[e] = IF Status(state[e].research_results) = "failed"
                                THEN "coordinator" ELSE "analysis"
                     /\ aux[e].raised => pc[e] = "coordinator"
               /\ Last(t) = "analysis" =>
                     /\ pc[e] = IF Status(state[e].analysis_results) = "failed"
                                THEN "coordinator" ELSE "action"
                     /\ aux[e].raised => pc[e] = "coordinator"

C24_Witness ==
    \E e \in Execs :
        /\ pc[e] = "coordinator"
        /\ aux[e].trace # <<>>
        /\ Last(aux[e].trace) = "research"
        /\ ~aux[e].raised
        /\ state[e].current_step = "research_completed"
        /\ Status(state[e].research_results) = "failed"

\* C25: the Action node is invoked at most once per execution and is always
\* followed directly by the Finalizer, whether its result is completed,
\* carries status "failed", or process() raised.
C25_ActionTerminal ==
    \A e \in Execs :
        LET t == aux[e].trace
        IN  /\ Count(t, "action") <= 1
            /\ \A i \in 1..(Len(t) - 1) : t[i] = "action" => Follows(t, i) = "finalizer"
            /\ (t # <<>> /\ Last(t) = "action") =>
                  /\ pc[e] = "finalizer"
                  /\ state[e].current_step \in {"action_completed", "action_failed"}
                  /\ Status(state[e].action_results) \in {"completed", "failed"}

C25_Witness ==
    \E e \in Execs :
        /\ pc[e] = "done"
        /\ state[e].current_step = "action_failed"
        /\ aux[e].raised
        /\ state[e].retry_count < state[e].max_retries
        /\ Count(aux[e].trace, "action") = 1

\* C27: final_output and execution_summary are None until the Finalizer has
\* run; only a Finalizer step changes them; the Finalizer runs at most once
\* per execution and is the last node of its trace; and a Finalizer step
\* leaves step_history, retry_count and the three result slots as they were.
C27_FinalizerWritesOnce ==
    /\ [](\A e \in Execs :
            LET t == aux[e].trace
            IN  /\ "finalizer" \notin Range(t) =>
                      /\ IsNone(state[e].final_output)
                      /\ IsNone(state[e].execution_summary)
                /\ Count(t, "finalizer") <= 1
                /\ "finalizer" \in Range(t) => (Last(t) = "finalizer" /\ Finished(e)))
    /\ [][\A e \in Execs :
            /\ (\/ state'[e].final_output # state[e].final_output
                \/ state'[e].execution_summary # state[e].execution_summary)
               => /\ pc[e] = "finalizer"
                  /\ IsNone(state[e].final_output)
                  /\ IsNone(state[e].execution_summary)
            /\ pc[e] = "finalizer" =>
                  /\ pc'[e] \in {"finalizer", "done", "raised"}
                  /\ state'[e].step_history = state[e].step_history
                  /\ state'[e].retry_count = state[e].retry_count
                  /\ state'[e].research_results = state[e].research_results
                  /\ state'[e].analysis_results = state[e].analysis_results
                  /\ state'[e].action_results = state[e].action_results
            /\ Finished(e) => (state'[e] = state[e] /\ pc'[e] = pc[e])]_vars

C27_Witness ==
    \E e \in Execs :
        /\ pc[e] = "done"
        /\ ~IsNone(state[e].final_output)
        /\ ~IsNone(state[e].execution_summary)
        /\ state[e].execution_summary.failed_steps = 1
        /\ state[e].execution_summary.total_steps = 3

\* Most node visits of one run: the entry Coordinator step, a Research and a
\* Coordinator step per retry, then Research, Coordinator, Analysis,
\* Coordinator, Action and the Finalizer
MaxVisits(budget) == 2 * budget + 7

\* C26: every run of the graph that has started reaches the Finalizer and
\* ends, for every sequence of agent outcomes and every max_retries >= 0;
\* it visits at most 2 x max_retries + 7 nodes, of which at most
\* 3 + max_retries are agent nodes, and no node runs after the Finalizer.
C26_Terminates ==
    /\ \A e \in Execs : Started(e) ~> Finished(e)
    /\ [](\A e \in Execs :
            /\ Len(aux[e].trace) <= MaxVisits(state[e].max_retries)
            /\ AgentInvocations(e) <= 3 + state[e].max_retries
            /\ Finished(e) <=> (aux[e].trace # <<>> /\ Last(aux[e].trace) = "finalizer"))

C26_Witness ==
    \E e \in Execs :
        /\ Finished(e)
        /\ state[e].max_retries = MaxBudget
        /\ state[e].retry_count = MaxBudget
        /\ Len(aux[e].trace) = MaxVisits(MaxBudget)

\* ---- the conversation history of one agent
History == conversation_history[HistoryAgent]
\* An LLM exchange: an invoke_llm call resumes with the LLM's answer
Exchange(c) == call.status[c] = "awaiting" /\ call'.status[c] = "returned"
Cleared == call.completed # <<>> /\ call'.completed = <<>>
\* The two entries call c logs
Pair(c) ==
    <<[role |-> "user", content |-> LastContent(call.messages[c]), agent |-> HistoryAgent],
      [role |-> "assistant", content |-> Response(c), agent |-> HistoryAgent]>>
RECURSIVE Pairs(_)
Pairs(completed) ==
    IF completed = <<>> THEN <<>> ELSE Pair(Head(completed)) \o Pairs(Tail(completed))

\* C29 as stated: the history never grows beyond a fixed bound (here: it
\* stays shorter than what MaxCalls logged exchanges amount to), and an LLM
\* exchange removes, reorders or modifies no existing entry.
C29_BoundedAppendOnly ==
    /\ [](Len(History) < 2 * MaxCalls)
    /\ [][\A c \in Calls : Exchange(c) => IsPrefix(History, History')]_vars

\* C29 as amended: the history is append-only and has no bound: every LLM
\* exchange keeps all existing entries in place and adds two, whatever the
\* length reached; an invoke_llm call that starts or raises changes nothing;
\* entries are removed only by clear_history, which removes all of them.
C29_AppendOnlyUnbounded ==
    [][/\ \A c \in Calls :
             Exchange(c) => /\ IsPrefix(History, History')
                            /\ Len(History') = Len(History) + 2
       /\ (\A c \in Calls : ~Exchange(c)) =>
             \/ History' = History
             \/ History' = <<>> /\ Cleared]_vars

C29_Witness ==
    /\ call.op = "invoke_llm"
    /\ \A c \in Calls : call.status[c] = "returned"
    /\ Len(History) = 2 * MaxCalls

\* C30: an invoke_llm call whose LLM invocation succeeds appends exactly two
\* entries, its user entry directly followed by its assistant entry; a call
\* whose LLM invocation raises appends nothing; so under any interleaving the
\* history is the sequence of the pairs of the calls that returned since the
\* last clear_history, in the order they returned, and get_status reports
\* conversation_length as twice their number.
C30_AtomicExchange ==
    /\ [](/\ History = Pairs(call.completed)
          /\ get_status(HistoryAgent).conversation_length = 2 * Len(call.completed)
          /\ \A i \in 1..Len(History) :
                History[i].role = IF i % 2 = 1 THEN "user" ELSE "assistant")
    /\ [][\A c \in Calls :
            /\ Exchange(c) => History' = History \o Pair(c)
            /\ (call.status[c] = "awaiting" /\ call'.status[c] = "raised") =>
                  History' = History]_vars

C30_Witness ==
    /\ call.op = "invoke_llm"
    /\ call.completed = <<2, 1>>
    /\ call.status[3] = "raised"
    /\ call.messages[1] = <<>>
    /\ Len(History) = 4
    /\ History[1].content = Prompt(2)
    /\ History[4].content = Response(1)

\* ---- action prioritization
\* priority_score as C28 words it, priorities read in any letter case
ClaimedPriorityScore(action) ==
    IF "priority" \notin DOMAIN action THEN 2
    ELSE IF action.priority \in {"critical"} THEN 4
    ELSE IF action.priority \in {"high", "HIGH"} THEN 3
    ELSE IF action.priority \in {"medium"} THEN 2
    ELSE IF action.priority \in {"low"} THEN 1
    ELSE 2
\* the pair (priority_score, urgency_score) of a returned action
ClaimedPair(x) ==
    <<x.priority_score,
      IF "urgency_score" \in DOMAIN x.urgency_assessment
      THEN x.urgency_assessment.urgency_score ELSE 0>>
Higher(a, b) == a[1] > b[1] \/ (a[1] = b[1] /\ a[2] > b[2])

\* C28: for every non-empty plan of well-formed actions _prioritize_actions
\* returns min(5, len(plan)) actions, each a copy of a different input action
\* extended with priority_score (4/3/2/1 for critical/high/medium/low, 2 for
\* a missing or unknown priority) and with the urgency assessment obtained
\* for that action; the pairs (priority_score, urgency_score) are
\* non-increasing along the list; no action left out has a strictly higher
\* pair than a returned one; one LLM call is made per action; and an empty
\* plan yields an empty list with no LLM call.
C28_Prioritization ==
    Returned("prioritize") =>
        LET plan == call.input.action_plan
            out == call.out.value
            \* the input action a returned action was copied from
            From(x) == x.title
            assessed == [i \in 1..Len(plan) |->
                            [priority_score |-> ClaimedPriorityScore(plan[i]),
                             urgency_assessment |->
                                 _assess_action_urgency(call.input.responses[i])]]
        IN  /\ plan = <<>> => /\ out = <<>>
                              /\ call.out.llm_calls = 0
                              /\ conversation_history["action"] = <<>>
            /\ Len(out) <= 5
            /\ Len(out) = Min(5, Len(plan))
            /\ call.out.llm_calls = Len(plan)
            /\ Len(conversation_history["action"]) = 2 * Len(plan)
            /\ \A j \in 1..Len(out) :
                  /\ From(out[j]) \in 1..Len(plan)
                  /\ DOMAIN out[j] =
                        DOMAIN plan[From(out[j])] \cup {"priority_score", "urgency_assessment"}
                  /\ \A f \in DOMAIN plan[From(out[j])] : out[j][f] = plan[From(out[j])][f]
                  /\ out[j].priority_score = ClaimedPriorityScore(plan[From(out[j])])
                  /\ out[j].urgency_assessment = assessed[From(out[j])].urgency_assessment
            /\ \A j, k \in 1..Len(out) :
                  /\ j # k => From(out[j]) # From(out[k])
                  /\ j < k => ~Higher(ClaimedPair(out[k]), ClaimedPair(out[j]))
            /\ \A i \in 1..Len(plan) :
                  (\A j \in 1..Len(out) : From(out[j]) # i) =>
                      \A j \in 1..Len(out) :
                          ~Higher(ClaimedPair(assessed[i]), ClaimedPair(out[j]))

C28_Witness ==
    /\ Returned("prioritize")
    /\ Len(call.input.action_plan) = MaxPlanned
    /\ [i \in 1..MaxPlanned |-> GetOr(call.input.action_plan[i], "priority", "None")]
           = <<"low", "None", "HIGH", "urgent", "None", "critical">>
    /\ Len(call.out.value) = 5
    /\ [j \in 1..5 |-> call.out.value[j].title] = <<6, 3, 4, 2, 5>>

====
